---- MODULE Spec2Model ----
(***************************************************************************)
(* A model of libs/common/mediafile.py: the MediaFile facade, its          *)
(* MediaField descriptors and their StorageStyle strategies, together with *)
(* the error mapping of mutagen_call.                                      *)
(*                                                                         *)
(* Python values are tagged records; text is a sequence of one-character   *)
(* strings so that str(), int() and the regular expressions of _safe_cast  *)
(* are computed, not assumed.  A Mutagen file object is a function from    *)
(* the keys that are present to the value stored under each key.           *)
(***************************************************************************)
EXTENDS Integers, Sequences, FiniteSets, TLC

VARIABLES
    phase,      \* "Closed" | "Open" : whether a MediaFile object exists
    mgclass,    \* type(self.mgfile).__name__ of the open facade
    type,       \* self.type, the family tag
    id3v23,     \* self.id3v23
    hastags,    \* self.mgfile.tags is not None
    tags,       \* the in-memory tag set of self.mgfile
    info,       \* self.mgfile.info, the codec's audio-info structure
    disk,       \* the file on disk: codec class, stored tag set, audio info, size
    clsdict,    \* MediaFile.__dict__: name -> descriptor or other attribute
    last,       \* the operation that ran last and its arguments
    ret,        \* what that operation returned or raised
    calls,      \* the codec calls that operation made, in order
    nops        \* number of operations run so far

vars == <<phase, mgclass, type, id3v23, hastags, tags, info, disk, clsdict, last, ret, calls, nops>>

-----------------------------------------------------------------------------
(* Bounds of the model. *)

\* operations explored after construction
MaxOps == 2

-----------------------------------------------------------------------------
(* Python values. *)

None == [t |-> "none"]
StrV(s) == [t |-> "str", s |-> s]
BytesV(s) == [t |-> "bytes", s |-> s]
IntV(n) == [t |-> "int", n |-> n]
BoolV(b) == [t |-> "bool", b |-> b]
\* a float: the number n / 2^k
FloatV(n, k) == [t |-> "float", n |-> n, k |-> k]
ListV(l) == [t |-> "list", l |-> l]
\* a raised exception of class e
Exc(e) == [t |-> "exc", e |-> e]

IsExc(v) == v.t = "exc"

\* Python truthiness, as used by `if out:` and `x or y`
Truthy(v) ==
    CASE v.t = "none" -> FALSE
      [] v.t = "str" -> v.s # <<>>
      [] v.t = "bytes" -> v.s # <<>>
      [] v.t = "int" -> v.n # 0
      [] v.t = "bool" -> v.b
      [] v.t = "list" -> v.l # <<>>
      [] v.t = "float" -> v.n # 0
      [] OTHER -> TRUE

Digits == <<"0", "1", "2", "3", "4", "5", "6", "7", "8", "9">>
DigitSet == {Digits[i] : i \in 1..10}
DigitVal(c) == (CHOOSE i \in 1..10 : Digits[i] = c) - 1

RECURSIVE NatToText(_)
NatToText(n) == IF n < 10 THEN <<Digits[n + 1]>> ELSE NatToText(n \div 10) \o <<Digits[(n % 10) + 1]>>

\* str(n) for an int n
IntToText(n) == IF n < 0 THEN <<"-">> \o NatToText(0 - n) ELSE NatToText(n)

RECURSIVE TextToNat(_, _)
TextToNat(s, acc) == IF s = <<>> THEN acc ELSE TextToNat(Tail(s), acc * 10 + DigitVal(Head(s)))

RECURSIVE LStrip(_)
LStrip(s) == IF s # <<>> /\ Head(s) = " " THEN LStrip(Tail(s)) ELSE s

RECURSIVE RStrip(_)
RStrip(s) == IF s # <<>> /\ s[Len(s)] = " " THEN RStrip(SubSeq(s, 1, Len(s) - 1)) ELSE s

\* str.strip()
Strip(s) == RStrip(LStrip(s))

RECURSIVE DigitPrefixLen(_)
DigitPrefixLen(s) == IF s # <<>> /\ Head(s) \in DigitSet THEN 1 + DigitPrefixLen(Tail(s)) ELSE 0

HasSign(s) == s # <<>> /\ Head(s) \in {"+", "-"}
Unsigned(s) == IF HasSign(s) THEN Tail(s) ELSE s
Signed(s, n) == IF HasSign(s) /\ Head(s) = "-" THEN 0 - n ELSE n

\* re.match(r'[\+-]?[0-9]+', s): does the front of s hold a number?
NumberAtFront(s) == DigitPrefixLen(Unsigned(s)) > 0
\* int(match.group(0)) for that match
NumberAtFrontVal(s) == Signed(s, TextToNat(SubSeq(Unsigned(s), 1, DigitPrefixLen(Unsigned(s))), 0))

\* int(s) for text s: the whole stripped text must be a number, else ValueError
IntOfTextOk(s) == LET u == Unsigned(Strip(s)) IN u # <<>> /\ DigitPrefixLen(u) = Len(u)
IntOfText(s) == NumberAtFrontVal(Strip(s))

-----------------------------------------------------------------------------
(* Floats.  A float of the model is a dyadic rational n / 2^k, so that the *)
(* products, quotients and roundings the code computes on it are exact.    *)

\* pow(2, e)
RECURSIVE Pow2(_)
Pow2(e) == IF e = 0 THEN 1 ELSE 2 * Pow2(e - 1)

RECURSIVE Pow10(_)
Pow10(e) == IF e = 0 THEN 1 ELSE 10 * Pow10(e - 1)

\* a rounding that drops the fraction
round_down(n, m) == n \div m

\* round(n / m) for m > 0 as Python 3 rounds: to the nearest integer, a tie
\* to the even one
round(n, m) ==
    LET low == n \div m
        rest == n - low * m
    IN IF 2 * rest < m THEN low
       ELSE IF 2 * rest > m THEN low + 1
       ELSE IF low % 2 = 0 THEN low ELSE low + 1

\* int(n / m) for m > 0: towards zero
Trunc(n, m) == IF n >= 0 THEN n \div m ELSE 0 - ((0 - n) \div m)

\* the same number with the least k
RECURSIVE Normal(_)
Normal(x) == IF x.k > 0 /\ x.n % 2 = 0 THEN Normal(FloatV(x.n \div 2, x.k - 1)) ELSE x

IsNumber(v) == v.t \in {"int", "float", "bool"}
\* float(v) for a number v
AsFloat(v) ==
    CASE v.t = "float" -> v
      [] v.t = "int" -> FloatV(v.n, 0)
      [] v.t = "bool" -> FloatV(IF v.b THEN 1 ELSE 0, 0)

ZeroPad(text, width) == [i \in 1..(IF Len(text) < width THEN width - Len(text) ELSE 0) |-> "0"] \o text

\* '{0:.{1}f}'.format(x, places)
FormatFloat(x, places) ==
    LET mag == IF x.n < 0 THEN 0 - x.n ELSE x.n
        scaled == round(mag * Pow10(places), Pow2(x.k))
    IN (IF x.n < 0 THEN <<"-">> ELSE <<>>) \o NatToText(scaled \div Pow10(places))
       \o (IF places > 0 THEN <<".">> \o ZeroPad(NatToText(scaled % Pow10(places)), places) ELSE <<>>)

\* the decimal digits of r / m for 0 <= r < m, m a power of two
RECURSIVE FracDigits(_, _)
FracDigits(r, m) == IF r = 0 THEN <<>> ELSE <<Digits[((r * 10) \div m) + 1]>> \o FracDigits((r * 10) % m, m)

\* str(x) for a float x
FloatRepr(x) ==
    LET mag == IF x.n < 0 THEN 0 - x.n ELSE x.n
        rest == mag % Pow2(x.k)
    IN (IF x.n < 0 THEN <<"-">> ELSE <<>>) \o NatToText(mag \div Pow2(x.k)) \o <<".">>
       \o (IF rest = 0 THEN <<"0">> ELSE FracDigits(rest, Pow2(x.k)))

\* float(text) for the decimal n / 10^d, for the decimals that are floats
\* of the model: those whose value is a dyadic rational
RECURSIVE DecimalFloat(_, _)
DecimalFloat(n, d) ==
    CASE d = 0 -> FloatV(n, 0)
      [] d > 0 /\ n % 10 = 0 -> DecimalFloat(n \div 10, d - 1)
      [] d > 0 /\ n % 10 # 0 /\ n % (Pow10(d) \div Pow2(d)) = 0 -> Normal(FloatV(n \div (Pow10(d) \div Pow2(d)), d))

\* re.match(r'[\+-]?([0-9]+\.?[0-9]*|[0-9]*\.[0-9]+)', s)
FloatAtFront(s) ==
    LET u == Unsigned(s)
    IN DigitPrefixLen(u) > 0 \/ (u # <<>> /\ Head(u) = "." /\ DigitPrefixLen(Tail(u)) > 0)
\* float(match.group(0)) for that match
FloatAtFrontVal(s) ==
    LET u == Unsigned(s)
        a == DigitPrefixLen(u)
        rest == SubSeq(u, a + 1, Len(u))
        d == IF rest # <<>> /\ Head(rest) = "." THEN DigitPrefixLen(Tail(rest)) ELSE 0
        whole == TextToNat(SubSeq(u, 1, a), 0)
        frac == TextToNat(SubSeq(rest, 2, 1 + d), 0)
    IN DecimalFloat(Signed(s, whole * Pow10(d) + frac), d)

\* str(v)
PyStr(v) ==
    CASE v.t = "str" -> v.s
      [] v.t = "bytes" -> <<"b", "'">> \o v.s \o <<"'">>
      [] v.t = "int" -> IntToText(v.n)
      [] v.t = "bool" -> IF v.b THEN <<"T", "r", "u", "e">> ELSE <<"F", "a", "l", "s", "e">>
      [] v.t = "float" -> FloatRepr(v)
      [] OTHER -> <<"N", "o", "n", "e">>

\* int(v): IntV(n), or Exc("ValueError") / Exc("TypeError")
PyInt(v) ==
    CASE v.t = "int" -> v
      [] v.t = "bool" -> IntV(IF v.b THEN 1 ELSE 0)
      [] v.t = "float" -> IntV(Trunc(v.n, Pow2(v.k)))
      [] v.t \in {"str", "bytes"} -> IF IntOfTextOk(v.s) THEN IntV(IntOfText(v.s)) ELSE Exc("ValueError")
      [] OTHER -> Exc("TypeError")

\* _safe_cast(out_type, val)
safe_cast(out_type, val) ==
    IF val.t = "none" THEN None
    ELSE CASE out_type = "int" ->
                IF val.t = "int" THEN val
                ELSE IF val.t = "bool" THEN IntV(IF val.b THEN 1 ELSE 0)
                ELSE IF val.t = "float" THEN IntV(Trunc(val.n, Pow2(val.k)))
                ELSE LET text == Strip(IF val.t \in {"str", "bytes"} THEN val.s ELSE PyStr(val))
                     IN IF NumberAtFront(text) THEN IntV(NumberAtFrontVal(text)) ELSE IntV(0)
           [] out_type = "bool" ->
                LET n == PyInt(val)
                IN IF n.t = "int" THEN BoolV(n.n # 0)
                   ELSE IF n.e = "ValueError" THEN BoolV(FALSE) ELSE n
           [] out_type = "str" ->
                IF val.t \in {"str", "bytes"} THEN StrV(val.s) ELSE StrV(PyStr(val))
           [] out_type = "float" ->
                IF IsNumber(val) THEN AsFloat(val)
                ELSE LET text == Strip(IF val.t = "bytes" THEN val.s ELSE PyStr(val))
                     IN IF FloatAtFront(text) THEN FloatAtFrontVal(text) ELSE FloatV(0, 0)
           [] OTHER -> val

-----------------------------------------------------------------------------
(* The iTunes Sound Check encoding. *)

HexDigits == <<"0", "1", "2", "3", "4", "5", "6", "7", "8", "9", "A", "B", "C", "D", "E", "F">>
LowerHex == <<"0", "1", "2", "3", "4", "5", "6", "7", "8", "9", "a", "b", "c", "d", "e", "f">>
IsHex(c) == \E i \in 1..16 : HexDigits[i] = c \/ LowerHex[i] = c
HexVal(c) == (CHOOSE i \in 1..16 : HexDigits[i] = c \/ LowerHex[i] = c) - 1

RECURSIVE NatToHex(_)
NatToHex(n) == IF n < 16 THEN <<HexDigits[n + 1]>> ELSE NatToHex(n \div 16) \o <<HexDigits[(n % 16) + 1]>>

\* ' %08X' % n
Hex8(n) == <<" ">> \o (IF n < 0 THEN <<"-">> \o ZeroPad(NatToHex(0 - n), 7) ELSE ZeroPad(NatToHex(n), 8))

RECURSIVE HexToNat(_, _)
HexToNat(text, acc) == IF text = <<>> THEN acc ELSE HexToNat(Tail(text), acc * 16 + HexVal(Head(text)))

\* struct.unpack('!i', ...) of the four bytes that eight hex digits spell
Int32OfHex(text) == (IF HexVal(text[1]) >= 8 THEN HexVal(text[1]) - 16 ELSE HexVal(text[1])) * 268435456 + HexToNat(Tail(text), 0)

Max(a, b) == IF a >= b THEN a ELSE b
Min(a, b) == IF a <= b THEN a ELSE b

\* round(math.log10(maxgain / 1000.0) * -10, 2), for the measurements that
\* are powers of ten, and for 891, which is 0.5012 dB
GainOf(maxgain) ==
    CASE maxgain = 891 -> FloatV(1, 1)
      [] maxgain = 1 -> FloatV(30, 0)
      [] maxgain = 10 -> FloatV(20, 0)
      [] maxgain = 100 -> FloatV(10, 0)
      [] maxgain = 1000 -> FloatV(0, 0)
      [] maxgain = 10000 -> FloatV(0 - 10, 0)

\* the float nearest to the decimal m / 10^d, where that is no n / 2^k
DecimalV(m, d) == [t |-> "float", n |-> m, d |-> d]
\* the float of m millionths: 10^6 is 2^6 * 15625
Millionths(m) == IF m % 15625 = 0 THEN Normal(FloatV(m \div 15625, 6)) ELSE DecimalV(m, 6)
\* a round(peak, 6) that leaves the peak as it is
Round6_exact(x) == Normal(x)

\* round(peak, 6): a float of six decimal places or fewer is kept, any other
\* is rounded to millionths, half to even
Round6(x) == IF Normal(x).k <= 6 THEN Normal(x) ELSE Millionths(round(x.n * 15625, Pow2(x.k - 6)))

\* _sc_decode(soundcheck): the pair (gain, peak)
sc_decode(soundcheck) ==
    LET text == SelectSeq(soundcheck.s, LAMBDA c : c # " ")
        number(i) == Int32OfHex(SubSeq(text, 8 * i - 7, 8 * i))
    IN IF Len(text) # 80 \/ \E i \in 1..Len(text) : ~IsHex(text[i]) THEN <<FloatV(0, 0), FloatV(0, 0)>>
       ELSE LET maxgain == Max(number(1), number(2))
            IN <<IF maxgain > 0 THEN GainOf(maxgain) ELSE FloatV(0, 0), Round6(FloatV(Max(number(7), number(8)), 15))>>

\* round((10 ** (gain / -10)) * reference), for the gains that are whole
\* multiples of 10 dB and for half a dB (10 ** -0.05 is 0.89125); what
\* exceeds 65534 is cut there by the caller
ScaledGain(gain, reference) ==
    LET x == Normal(AsFloat(gain))
        e == (0 - x.n) \div 10
    IN CASE x = FloatV(1, 1) -> round(reference * 89125, 100000)
         [] x.k = 0 /\ x.n % 10 = 0 /\ e >= 2 -> 65535
         [] x.k = 0 /\ x.n % 10 = 0 /\ e \in {0, 1} -> reference * Pow10(e)
         [] x.k = 0 /\ x.n % 10 = 0 /\ e < 0 /\ e >= 0 - 4 -> round(reference, Pow10(0 - e))
         [] x.k = 0 /\ x.n % 10 = 0 /\ e < 0 - 4 -> 0

\* int(min(round(...), 65534)) or 1
GainWord(scaled) == IF Min(scaled, 65534) = 0 THEN 1 ELSE Min(scaled, 65534)
\* int(peak * 32768.0)
PeakWord(x) == Trunc(x.n * 32768, Pow2(x.k))
\* (' %08X' * 10) % values
RECURSIVE Hex8All(_)
Hex8All(values) == IF values = <<>> THEN <<>> ELSE Hex8(Head(values)) \o Hex8All(Tail(values))

\* _sc_encode(gain, peak): the Sound Check text, or the TypeError that
\* arithmetic on a value that is no number raises
sc_words(g1, g2, p) == StrV(Hex8All(<<g1, g1, g2, g2, 0, 0, p, p, 0, 0>>))
sc_encode(gain, peak) ==
    IF ~IsNumber(peak) \/ ~IsNumber(gain) THEN Exc("TypeError")
    ELSE sc_words(GainWord(ScaledGain(gain, 1000)), GainWord(ScaledGain(gain, 2500)), PeakWord(AsFloat(peak)))

-----------------------------------------------------------------------------
(* A Mutagen file object as a dictionary. *)

HasKey(d, k) == k \in DOMAIN d
SetKey(d, k, v) == [x \in (DOMAIN d) \cup {k} |-> IF x = k THEN v ELSE d[x]]
DelKey(d, k) == [x \in (DOMAIN d) \ {k} |-> d[x]]
EmptyTags == [x \in {} |-> None]

-----------------------------------------------------------------------------
(* Image coding for ASF: a byte string is a sequence of numbers 0..255, a  *)
(* text a sequence of UTF-16 code units.                                    *)

\* the outcome of a loop that never ends
Hang == [t |-> "hang"]
\* a call that did not return a value: it raised, or it never ends
Failed(v) == v = Hang \/ IsExc(v)

\* text.encode("utf-16-le"): each code unit, low byte first
RECURSIVE EncodeUtf16le(_)
EncodeUtf16le(text) ==
    IF text = <<>> THEN <<>>
    ELSE <<Head(text) % 256, Head(text) \div 256>> \o EncodeUtf16le(Tail(text))

\* bytes.decode("utf-16-le") of an even number of bytes
RECURSIVE DecodeUtf16le(_)
DecodeUtf16le(bytes) ==
    IF Len(bytes) < 2 THEN <<>>
    ELSE <<bytes[1] + 256 * bytes[2]>> \o DecodeUtf16le(SubSeq(bytes, 3, Len(bytes)))

\* struct.pack('<bi', type, size): a signed byte and a signed 32-bit
\* integer, least significant byte first, no padding
PackByteInt(typ, size) ==
    <<typ % 256, size % 256, (size \div 256) % 256, (size \div 65536) % 256, (size \div 16777216) % 256>>

\* struct.unpack_from('<bi', data)
UnpackByteInt(data) ==
    LET b == data[1]
        low == data[2] + 256 * data[3] + 65536 * data[4]
    IN <<IF b >= 128 THEN b - 256 ELSE b,
         IF data[5] >= 128 THEN (low + 16777216 * (data[5] - 128)) - 2147483647 - 1 ELSE low + 16777216 * data[5]>>

\* data[pos:pos + n] with pos counted from 0
Slice(data, pos, n) ==
    SubSeq(data, pos + 1, IF pos + n < Len(data) THEN pos + n ELSE Len(data))

\* the loop `while data[pos:pos + 2] != b'\x00\x00'`: the bytes gathered and
\* the position of the terminator; it never ends once pos is past the data
RECURSIVE ScanToNull(_, _, _)
ScanToNull(data, pos, acc) ==
    IF Slice(data, pos, 2) = <<0, 0>> THEN [text |-> acc, pos |-> pos]
    ELSE IF pos >= Len(data) THEN Hang
    ELSE ScanToNull(data, pos + 2, acc \o Slice(data, pos, 2))

\* a pack that ends the mime type with one zero byte
pack_asf_image_short_null(mime, data, typ, description) ==
    PackByteInt(typ, Len(data)) \o EncodeUtf16le(mime) \o <<0>> \o EncodeUtf16le(description) \o <<0, 0>> \o data

\* _pack_asf_image(mime, data, type, description)
pack_asf_image(mime, data, typ, description) ==
    PackByteInt(typ, Len(data)) \o EncodeUtf16le(mime) \o <<0, 0>> \o EncodeUtf16le(description) \o <<0, 0>> \o data

\* _unpack_asf_image(data): <<mime, image_data, type, description>>;
\* struct.unpack_from raises struct.error on fewer than five bytes
unpack_asf_image(data) ==
    IF Len(data) < 5 THEN Exc("struct.error")
    ELSE LET head == UnpackByteInt(data)
             m == ScanToNull(data, 5, <<>>)
         IN IF m = Hang THEN Hang
            ELSE LET d == ScanToNull(data, m.pos + 2, <<>>)
                 IN IF d = Hang THEN Hang
                    ELSE <<DecodeUtf16le(m.text), Slice(data, d.pos + 2, IF head[2] < 0 THEN 0 ELSE head[2]), head[1], DecodeUtf16le(d.text)>>

-----------------------------------------------------------------------------
(* Images.  The data of an image is a byte string of numbers 0..255, its   *)
(* description a text of code units.                                        *)

\* a member of ImageType, by its value
ImageType(value) == [t |-> "ImageType", value |-> value]
front == ImageType(3)

\* list(ImageType)[index]: the member at that position, counted from the
\* end for a negative index; IndexError leaves ImageType.other
ImageTypeAt(index) ==
    IF index \in 0..20 THEN ImageType(index)
    ELSE IF index \in (0 - 21)..(0 - 1) THEN ImageType(21 + index)
    ELSE ImageType(0)

\* Image(data, desc, type): type is an ImageType, an index or None
Image(data, desc, typ) ==
    [t |-> "image", data |-> data, desc |-> desc, type |-> IF typ.t = "int" THEN ImageTypeAt(typ.n) ELSE typ]

\* image_mime_type: the MIME type the first bytes of the data stand for;
\* 0x89 begins a PNG file and 0xFF a JPEG file
PNG == <<105, 109, 97, 103, 101, 47, 112, 110, 103>>
JPEG == <<105, 109, 97, 103, 101, 47, 106, 112, 101, 103>>
image_mime_type(data) ==
    IF data = <<>> THEN None
    ELSE IF Head(data) = 137 THEN StrV(PNG)
    ELSE IF Head(data) = 255 THEN StrV(JPEG)
    ELSE None

\* Image.mime_type
mime_type(image) == IF image.data.s # <<>> THEN image_mime_type(image.data.s) ELSE None

\* Image.type_index
type_index(image) == IF image.type = None THEN 0 ELSE image.type.value

\* image.desc or u''
DescOrEmpty(image) == IF Truthy(image.desc) THEN image.desc ELSE StrV(<<>>)

\* base64.b64encode and base64.b64decode
B64(x) == [t |-> "b64", of |-> x]
B64Decode(b) == b.of

\* a mutagen.flac.Picture, also in its written form
Picture(data, typ, mime, desc) == [t |-> "Picture", data |-> data, type |-> typ, mime |-> mime, desc |-> desc]

\* APEv2ImageStorageStyle.TAG_NAMES, in the order of the dictionary: the
\* tag of the image type of each value 0..20
TAG_NAMES ==
    <<"Cover Art (other)", "Cover Art (icon)", "Cover Art (other icon)", "Cover Art (front)", "Cover Art (back)",
      "Cover Art (leaflet)", "Cover Art (media)", "Cover Art (lead)", "Cover Art (artist)", "Cover Art (conductor)",
      "Cover Art (band)", "Cover Art (composer)", "Cover Art (lyricist)", "Cover Art (studio)", "Cover Art (recording)",
      "Cover Art (performance)", "Cover Art (movie scene)", "Cover Art (colored fish)", "Cover Art (illustration)",
      "Cover Art (band logo)", "Cover Art (publisher logo)">>
CoverTag(value) == TAG_NAMES[value + 1]
TagNameTypes == [i \in 1..Len(TAG_NAMES) |-> i - 1]

\* value.find(b'\x00')
RECURSIVE FindNull(_, _)
FindNull(bytes, pos) ==
    IF bytes = <<>> THEN 0 - 1
    ELSE IF Head(bytes) = 0 THEN pos
    ELSE FindNull(Tail(bytes), pos + 1)

ImageClasses == {"MP3ImageStorageStyle", "MP4ImageStorageStyle", "ASFImageStorageStyle", "VorbisImageStorageStyle",
                 "FlacImageStorageStyle", "APEv2ImageStorageStyle"}

\* the images of the APEv2 cover tags, in the order of TAG_NAMES
RECURSIVE ape_fetch(_, _)
ape_fetch(mg, i) ==
    IF i > Len(TagNameTypes) THEN <<>>
    ELSE IF ~HasKey(mg, CoverTag(TagNameTypes[i])) THEN ape_fetch(mg, i + 1)
    ELSE LET value == mg[CoverTag(TagNameTypes[i])].s
             text_delimiter_index == FindNull(value, 0)
             comment == IF text_delimiter_index > 0 THEN StrV(SubSeq(value, 1, text_delimiter_index)) ELSE None
         IN <<Image(BytesV(SubSeq(value, text_delimiter_index + 2, Len(value))), comment, ImageType(TagNameTypes[i]))>>
                \o ape_fetch(mg, i + 1)

\* fetch() of an image style: the raw values (for the Vorbis and APEv2
\* styles the images themselves)
image_fetch(mg, st) ==
    CASE st.cls = "MP3ImageStorageStyle" -> IF HasKey(mg, st.key) THEN mg[st.key] ELSE ListV(<<>>)
      [] st.cls = "VorbisImageStorageStyle" ->
            IF ~HasKey(mg, "metadata_block_picture")
            THEN IF HasKey(mg, "coverart")
                 THEN ListV([i \in 1..Len(mg["coverart"].l) |-> Image(BytesV(B64Decode(mg["coverart"].l[i])), None, None)])
                 ELSE ListV(<<>>)
            ELSE ListV([i \in 1..Len(mg["metadata_block_picture"].l) |->
                            LET pic == B64Decode(mg["metadata_block_picture"].l[i])
                            IN Image(BytesV(pic.data), pic.desc, IntV(pic.type))])
      [] st.cls = "FlacImageStorageStyle" -> IF HasKey(mg, "pictures") THEN mg["pictures"] ELSE ListV(<<>>)
      [] st.cls = "APEv2ImageStorageStyle" -> ListV(ape_fetch(mg, 1))
      [] OTHER -> IF HasKey(mg, st.key) THEN mg[st.key] ELSE None

\* the image of an unpacked ASF picture
asf_image(u) == IF u = Hang \/ u = Exc("struct.error") THEN u ELSE Image(BytesV(u[2]), StrV(u[4]), IntV(u[3]))

\* deserialize() of an image style
image_deserialize(st, raw) ==
    CASE st.cls = "MP3ImageStorageStyle" -> Image(BytesV(raw.data), raw.desc, IntV(raw.type))
      [] st.cls = "MP4ImageStorageStyle" -> Image(BytesV(raw.data), None, None)
      [] st.cls = "ASFImageStorageStyle" -> asf_image(unpack_asf_image(raw.value))
      [] st.cls = "FlacImageStorageStyle" -> Image(BytesV(raw.data), raw.desc, IntV(raw.type))
      [] OTHER -> raw

\* a list comprehension: the list of the items, unless computing one of
\* them failed, which ends the comprehension
Comprehension(items) ==
    IF \E i \in 1..Len(items) : Failed(items[i])
    THEN items[CHOOSE i \in 1..Len(items) : Failed(items[i]) /\ \A j \in 1..(i - 1) : ~Failed(items[j])]
    ELSE ListV(items)

\* ListStorageStyle.get_list of an image style
image_deserialize_all(st, raw_values) ==
    IF raw_values = None THEN None
    ELSE Comprehension([i \in 1..Len(raw_values.l) |-> image_deserialize(st, raw_values.l[i])])
image_get_list(mg, st) == image_deserialize_all(st, image_fetch(mg, st))

-----------------------------------------------------------------------------
(* StorageStyle strategies.  A style is a record: its class, its key, the   *)
(* as_type it stores, its read_only flag and, for the packed pairs, the     *)
(* index (pack_pos) of the element it stands for.                           *)

Style(cls, key, as_type, read_only, index) ==
    [cls |-> cls, key |-> key, as_type |-> as_type, read_only |-> read_only, index |-> index, suffix |-> <<>>, float_places |-> 2]
\* the style with the keyword arguments float_places and suffix given
Places(st, float_places, suffix) == [st EXCEPT !.float_places = float_places, !.suffix = suffix]

StorageStyleFormats == {"FLAC", "OggOpus", "OggTheora", "OggSpeex", "OggVorbis", "OggFlac", "APEv2File", "WavPack", "Musepack", "MonkeysAudio"}
MP3Formats == {"MP3", "AIFF", "DSF", "WAVE"}
MP4Formats == {"MP4"}
ASFFormats == {"ASF"}

MP3Classes == {"MP3StorageStyle", "MP3PeopleStorageStyle", "MP3ListStorageStyle", "MP3UFIDStorageStyle", "MP3DescStorageStyle", "MP3ListDescStorageStyle",
               "MP3SlashPackStorageStyle", "MP3SoundCheckStorageStyle"}
MP4Classes == {"MP4StorageStyle", "MP4ListStorageStyle", "MP4BoolStorageStyle", "MP4TupleStorageStyle", "MP4SoundCheckStorageStyle"}
\* MP3DescStorageStyle and its subclass
MP3DescClasses == {"MP3DescStorageStyle", "MP3SoundCheckStorageStyle"}
SoundCheckClasses == {"MP3SoundCheckStorageStyle", "MP4SoundCheckStorageStyle"}
\* the classes that inherit get/set/get_list/set_list from ListStorageStyle
ListClasses == {"ListStorageStyle", "ASFStorageStyle", "MP3ListStorageStyle", "MP4ListStorageStyle"}

\* the class-level `formats` attribute of a style
formats(st) ==
    CASE st.cls = "MP3ImageStorageStyle" -> MP3Formats
      [] st.cls = "MP4ImageStorageStyle" -> MP4Formats
      [] st.cls = "ASFImageStorageStyle" -> ASFFormats
      [] st.cls = "VorbisImageStorageStyle" -> {"OggOpus", "OggTheora", "OggSpeex", "OggVorbis", "OggFlac"}
      [] st.cls = "FlacImageStorageStyle" -> {"FLAC"}
      [] st.cls = "APEv2ImageStorageStyle" -> {"APEv2File", "WavPack", "Musepack", "MonkeysAudio", "OptimFROG"}
      [] st.cls \in MP3Classes -> MP3Formats
      [] st.cls \in MP4Classes -> MP4Formats
      [] st.cls = "ASFStorageStyle" -> ASFFormats
      [] OTHER -> StorageStyleFormats

\* self.key.startswith('----:')
FreeformKeys == {"----:com.apple.iTunes:replaygain_track_gain", "----:com.apple.iTunes:replaygain_track_peak", "----:com.apple.iTunes:iTunNORM",
                 "----:com.apple.iTunes:R128_TRACK_GAIN", "----:com.apple.iTunes:R128_ALBUM_GAIN", "----:com.apple.iTunes:LABEL", "----:com.apple.iTunes:publisher", "----:com.apple.iTunes:Label", "----:com.apple.iTunes:customtag",
                 "----:com.apple.iTunes:ORIGINAL YEAR", "----:com.apple.iTunes:ORIGINALDATE"}

\* str.split('/')
RECURSIVE SplitSlash(_, _)
SplitSlash(s, cur) ==
    IF s = <<>> THEN <<cur>>
    ELSE IF Head(s) = "/" THEN <<cur>> \o SplitSlash(Tail(s), <<>>)
    ELSE SplitSlash(Tail(s), Append(cur, Head(s)))

\* '/'.join(texts)
RECURSIVE JoinSlash(_)
JoinSlash(texts) ==
    IF texts = <<>> THEN <<>>
    ELSE IF Len(texts) = 1 THEN texts[1]
    ELSE texts[1] \o <<"/">> \o JoinSlash(Tail(texts))

\* The TXXX frames whose desc equals the description of a style when case
\* is ignored, in the order getall returns them: a frame as other software
\* spells it, then the frame with the description as given. The key of a
\* MP3DescStorageStyle in the model is the HashKey of the latter.
DescFrames(key) ==
    CASE key = "TXXX:R128_TRACK_GAIN" -> <<"TXXX:r128_track_gain", "TXXX:R128_TRACK_GAIN">>
      [] key \in {"TXXX:REPLAYGAIN_TRACK_GAIN", "TXXX:replaygain_track_gain"} -> <<"TXXX:REPLAYGAIN_TRACK_GAIN", "TXXX:replaygain_track_gain">>
      [] key \in {"TXXX:REPLAYGAIN_TRACK_PEAK", "TXXX:replaygain_track_peak"} -> <<"TXXX:REPLAYGAIN_TRACK_PEAK", "TXXX:replaygain_track_peak">>
      [] OTHER -> <<key>>
\* the frames among them that the tag holds
FoundFrames(mg, key) == SelectSeq(DescFrames(key), LAMBDA k : HasKey(mg, k))

\* fetch(): the raw value under the style's key, None when absent
fetch(mg, st) ==
    CASE st.cls \in MP3DescClasses ->
            IF FoundFrames(mg, st.key) = <<>> THEN None
            ELSE LET text == mg[FoundFrames(mg, st.key)[1]]
                 IN IF text.t = "list" /\ Len(text.l) > 0 THEN text.l[1] ELSE None
      [] st.cls \in {"ListStorageStyle", "ASFStorageStyle", "MP4ListStorageStyle"} ->
            IF HasKey(mg, st.key) THEN mg[st.key] ELSE None
      [] st.cls = "MP3ListStorageStyle" ->
            IF HasKey(mg, st.key) THEN mg[st.key] ELSE ListV(<<>>)
      [] OTHER ->
            IF HasKey(mg, st.key) /\ mg[st.key].t = "list" /\ Len(mg[st.key].l) > 0 THEN mg[st.key].l[1] ELSE None

\* a list padded to two items
PadToTwo(items, fill) == items \o [i \in 1..(IF Len(items) < 2 THEN 2 - Len(items) ELSE 0) |-> fill]

\* MP4TupleStorageStyle.deserialize: the stored pair padded with zeros to two items
TupleItems(raw) == PadToTwo(IF Truthy(raw) THEN raw.l ELSE <<>>, IntV(0))

\* MP3SlashPackStorageStyle._fetch_unpacked
StrItems(parts) == [i \in 1..Len(parts) |-> StrV(parts[i])]
unpack(data) == PadToTwo(StrItems(IF Truthy(data) THEN SplitSlash(PyStr(data), <<>>) ELSE <<>>), None)
fetch_unpacked(mg, st) == unpack(fetch(mg, st))

\* get_list(): all values of a list style, None when the tag does not exist
\* (deserialize is the identity for the styles that hold text)
get_list(mg, st) == IF st.cls \in ImageClasses THEN image_get_list(mg, st) ELSE fetch(mg, st)

\* StorageStyle.deserialize: text loses the style's suffix
deserialize(st, value) ==
    IF st.suffix # <<>> /\ value.t = "str" /\ Len(value.s) >= Len(st.suffix)
       /\ SubSeq(value.s, Len(value.s) - Len(st.suffix) + 1, Len(value.s)) = st.suffix
    THEN StrV(SubSeq(value.s, 1, Len(value.s) - Len(st.suffix)))
    ELSE value

\* ListStorageStyle.get: the first of the values
first_value(values) ==
    IF Failed(values) THEN values
    ELSE IF values.t # "list" \/ values.l = <<>> THEN None ELSE values.l[1]
\* SoundCheckStorageStyleMixin.get
soundcheck_get(data, index) == IF data = None THEN None ELSE sc_decode(data)[index + 1]
\* a get that hands out a stored 0 as it is
tuple_get_zero(value) == value

\* MP4TupleStorageStyle.get
tuple_get(value) == IF value = IntV(0) THEN None ELSE value

\* get() of the styles that read the raw value under their key
raw_get(st, raw) ==
    CASE st.cls \in SoundCheckClasses -> soundcheck_get(raw, st.index)
      [] st.cls \in ListClasses -> first_value(raw)
      [] st.cls = "MP4TupleStorageStyle" -> tuple_get(TupleItems(raw)[st.index + 1])
      [] st.cls = "MP3SlashPackStorageStyle" -> unpack(raw)[st.index + 1]
      [] OTHER -> deserialize(st, raw)

\* get(): the value a style reads
style_get(mg, st) ==
    CASE st.cls \in ImageClasses -> first_value(image_get_list(mg, st))
      [] st.cls = "MP4BoolStorageStyle" -> IF HasKey(mg, st.key) THEN mg[st.key] ELSE None
      [] OTHER -> raw_get(st, fetch(mg, st))

\* StorageStyle.serialize: the value as the style's as_type
cast_as(as_type, float_places, value) ==
    IF as_type = "str"
    THEN IF value.t = "float" THEN StrV(FormatFloat(value, float_places))
         ELSE IF value.t = "bool" THEN StrV(IF value.b THEN <<"1">> ELSE <<"0">>)
         ELSE IF value.t = "bytes" THEN StrV(value.s)
         ELSE StrV(PyStr(value))
    ELSE IF as_type = "int" THEN PyInt(value)
    ELSE BoolV(Truthy(value))
\* value += self.suffix
add_suffix(suffix, cast) ==
    IF suffix = <<>> \/ IsExc(cast) THEN cast
    ELSE IF cast.t = "str" THEN StrV(cast.s \o suffix)
    ELSE Exc("TypeError")
\* MP4StorageStyle.serialize: the text of a freeform key as bytes
freeform_bytes(st, base) == IF st.cls \in MP4Classes /\ st.key \in FreeformKeys /\ base.t = "str" THEN BytesV(base.s) ELSE base

\* StorageStyle.serialize, and MP4StorageStyle.serialize on top of it
serialize(st, value) == freeform_bytes(st, add_suffix(st.suffix, cast_as(st.as_type, st.float_places, value)))

\* store(): mutagen_file[key] = [value]; an ID3 text frame is its text list;
\* MP3DescStorageStyle.store sets the text of every frame of its description
\* and adds a frame when there is none
store(mg, st, value) ==
    IF st.cls \in MP3DescClasses /\ FoundFrames(mg, st.key) # <<>>
    THEN [k \in DOMAIN mg |-> IF \E i \in 1..Len(FoundFrames(mg, st.key)) : FoundFrames(mg, st.key)[i] = k THEN ListV(<<value>>) ELSE mg[k]]
    ELSE SetKey(mg, st.key, ListV(<<value>>))

\* StorageStyle.delete; MP3DescStorageStyle.delete removes the first frame
\* of its description
plain_delete(mg, st) ==
    IF st.cls \in MP3DescClasses
    THEN IF FoundFrames(mg, st.key) # <<>> THEN DelKey(mg, FoundFrames(mg, st.key)[1]) ELSE mg
    ELSE IF HasKey(mg, st.key) THEN DelKey(mg, st.key) ELSE mg

\* the outcome of a style's set: the tag set it leaves and what it raised
Done(mg) == [mg |-> mg, exc |-> None]
Raised(mg, e) == [mg |-> mg, exc |-> e]

\* serialize every value of a list; the first exception, if any, is raised
SerializeAll(st, l) == [i \in 1..Len(l) |-> serialize(st, l[i])]
FirstExc(l) == IF \E i \in 1..Len(l) : IsExc(l[i]) THEN l[CHOOSE i \in 1..Len(l) : IsExc(l[i]) /\ \A j \in 1..(i - 1) : ~IsExc(l[j])] ELSE None

\* the characters Latin-1 can encode
Latin1(text) == \A i \in 1..Len(text) : text[i] < 256

\* serialize() of an image style: the raw value, or the exception raised
image_serialize(st, image) ==
    CASE st.cls = "MP3ImageStorageStyle" ->
            [t |-> "APIC", data |-> image.data.s, mime |-> mime_type(image), desc |-> DescOrEmpty(image),
             encoding |-> IF Latin1(DescOrEmpty(image).s) THEN "LATIN1" ELSE "UTF16", type |-> type_index(image)]
      [] st.cls = "MP4ImageStorageStyle" ->
            IF mime_type(image) = StrV(PNG) THEN [t |-> "MP4Cover", data |-> image.data.s, imageformat |-> "FORMAT_PNG"]
            ELSE IF mime_type(image) = StrV(JPEG) THEN [t |-> "MP4Cover", data |-> image.data.s, imageformat |-> "FORMAT_JPEG"]
            ELSE Exc("ValueError")
      [] st.cls = "ASFImageStorageStyle" ->
            IF mime_type(image) = None THEN Exc("AttributeError")
            ELSE [t |-> "ASFByteArrayAttribute",
                  value |-> pack_asf_image(mime_type(image).s, image.data.s, type_index(image), DescOrEmpty(image).s)]
      [] st.cls = "VorbisImageStorageStyle" ->
            IF mime_type(image) = None THEN Exc("AttributeError")
            ELSE B64(Picture(image.data.s, type_index(image), mime_type(image), DescOrEmpty(image)))
      [] OTHER -> Picture(image.data.s, type_index(image), mime_type(image), DescOrEmpty(image))

\* store() of an image style
image_store(mg, st, values) ==
    CASE st.cls = "MP3ImageStorageStyle" -> IF values = <<>> THEN plain_delete(mg, st) ELSE SetKey(mg, st.key, ListV(values))
      [] st.cls = "VorbisImageStorageStyle" ->
            LET mg1 == IF HasKey(mg, "coverart") THEN DelKey(mg, "coverart") ELSE mg
                mg2 == IF HasKey(mg1, "coverartmime") THEN DelKey(mg1, "coverartmime") ELSE mg1
            IN SetKey(mg2, st.key, ListV(values))
      [] st.cls = "FlacImageStorageStyle" -> IF values = <<>> THEN DelKey(mg, "pictures") ELSE SetKey(mg, "pictures", ListV(values))
      [] OTHER -> SetKey(mg, st.key, ListV(values))

\* APEv2ImageStorageStyle.delete: every cover tag is removed
ape_delete(mg) == [k \in {x \in DOMAIN mg : \A i \in 1..Len(TagNameTypes) : x # CoverTag(TagNameTypes[i])} |-> mg[k]]

\* delete() of an image style
image_delete(mg, st) ==
    CASE st.cls = "FlacImageStorageStyle" -> DelKey(mg, "pictures")
      [] st.cls = "APEv2ImageStorageStyle" -> ape_delete(mg)
      [] OTHER -> plain_delete(mg, st)

\* the loop of APEv2ImageStorageStyle.set_list: each image under the tag of
\* its type
RECURSIVE ape_store(_, _)
ape_store(mg, values) ==
    IF values = <<>> THEN mg
    ELSE LET image == Head(values)
             image_type == IF image.type = None THEN ImageType(0) ELSE image.type
             image_data == DescOrEmpty(image).s \o <<0>> \o image.data.s
         IN ape_store(SetKey(mg, CoverTag(image_type.value), BytesV(image_data)), Tail(values))

\* serialize every image of a list
ImageSerializeAll(st, l) == [i \in 1..Len(l) |-> image_serialize(st, l[i])]
\* store() of the serialized images, unless one of them raised
image_store_all(mg, st, ser) == IF FirstExc(ser) # None THEN Raised(mg, FirstExc(ser)) ELSE Done(image_store(mg, st, ser))

\* set_list() of an image style
image_set_list(mg, st, values) ==
    IF st.cls = "APEv2ImageStorageStyle"
    THEN IF values.t = "none" THEN Raised(ape_delete(mg), Exc("TypeError"))
         ELSE Done(ape_store(ape_delete(mg), values.l))
    ELSE IF values.t = "none" THEN Done(image_delete(mg, st))
    ELSE image_store_all(mg, st, ImageSerializeAll(st, values.l))

\* store() of the serialized values, unless one of them raised
store_all(mg, st, ser) == IF FirstExc(ser) # None THEN Raised(mg, FirstExc(ser)) ELSE Done(SetKey(mg, st.key, ListV(ser)))

\* ListStorageStyle.set_list, and the set_list of the image styles
set_list(mg, st, values) ==
    IF st.cls \in ImageClasses THEN image_set_list(mg, st, values)
    ELSE IF values.t = "none" THEN Done(plain_delete(mg, st))
    ELSE store_all(mg, st, SerializeAll(st, values.l))

\* MP4TupleStorageStyle.set
tuple_store(mg, st, n, items) ==
    IF IsExc(n) THEN Raised(mg, n)
    ELSE Done(store(mg, st, ListV([items EXCEPT ![st.index + 1] = n])))
tuple_set(mg, st, value) == tuple_store(mg, st, PyInt(IF value.t = "none" THEN IntV(0) ELSE value), TupleItems(fetch(mg, st)))

\* items[0] = '' when it is None
FirstAsText(items) == IF items[1].t = "none" THEN [items EXCEPT ![1] = StrV(<<>>)] ELSE items
\* items.pop() when the second item is None
DropNone(items) == IF items[2].t = "none" THEN SubSeq(items, 1, Len(items) - 1) ELSE items
\* map(str, items)
StrAll(items) == [i \in 1..Len(items) |-> PyStr(items[i])]

\* MP3SlashPackStorageStyle.set
slash_set(mg, st, value) ==
    Done(store(mg, st, StrV(JoinSlash(StrAll(DropNone(FirstAsText([fetch_unpacked(mg, st) EXCEPT ![st.index + 1] = value])))))))

\* the stored pair (gain, peak), zeros when the tag is absent
sc_pair(data) == IF data = None THEN <<IntV(0), IntV(0)>> ELSE sc_decode(data)
sc_encode_pair(pair) == sc_encode(pair[1], pair[2])
\* store() of the encoded pair, unless encoding raised
sc_store(mg, st, text) == IF IsExc(text) THEN Raised(mg, text) ELSE Done(store(mg, st, serialize(st, text)))

\* SoundCheckStorageStyleMixin.set: the stored pair with the style's half
\* replaced, encoded anew
soundcheck_set(mg, st, value) ==
    sc_store(mg, st, sc_encode_pair([sc_pair(fetch(mg, st)) EXCEPT ![st.index + 1] = IF Truthy(value) THEN value ELSE IntV(0)]))

\* store() of the serialized value, unless serialize raised
store_serialized(mg, st, ser) == IF IsExc(ser) THEN Raised(mg, ser) ELSE Done(store(mg, st, ser))

\* set(): the tag set after a style wrote value, or the exception it raised
style_set(mg, st, value) ==
    CASE st.cls \in SoundCheckClasses -> soundcheck_set(mg, st, value)
      [] st.cls \in ListClasses ->
            IF value.t = "none" THEN Done(SetKey(mg, st.key, None))
            ELSE set_list(mg, st, ListV(<<value>>))
      [] st.cls = "MP4BoolStorageStyle" -> Done(SetKey(mg, st.key, value))
      [] st.cls = "MP4TupleStorageStyle" -> tuple_set(mg, st, value)
      [] st.cls = "MP3SlashPackStorageStyle" -> slash_set(mg, st, value)
      [] OTHER -> store_serialized(mg, st, serialize(st, value))

\* delete(): the tag set after a style removed its tag
style_delete(mg, st) ==
    CASE st.cls \in ImageClasses -> image_delete(mg, st)
      [] st.cls = "MP4TupleStorageStyle" /\ st.index # 0 -> tuple_set(mg, st, None).mg
      [] st.cls = "MP3SlashPackStorageStyle" /\ st.index # 0 -> slash_set(mg, st, None).mg
      [] OTHER -> plain_delete(mg, st)

-----------------------------------------------------------------------------
(* Style constructors with the defaults of StorageStyle.__init__. *)

SS(key) == Style("StorageStyle", key, "str", FALSE, 0)
LSS(key) == Style("ListStorageStyle", key, "str", FALSE, 0)
ASF(key) == Style("ASFStorageStyle", key, "str", FALSE, 0)
MP3(key) == Style("MP3StorageStyle", key, "str", FALSE, 0)
MP3L(key) == Style("MP3ListStorageStyle", key, "str", FALSE, 0)
MP3Desc(desc_key) == Style("MP3DescStorageStyle", desc_key, "str", FALSE, 0)
MP3Slash(key, pack_pos) == Style("MP3SlashPackStorageStyle", key, "str", FALSE, pack_pos)
MP4(key) == Style("MP4StorageStyle", key, "str", FALSE, 0)
MP4ro(key) == Style("MP4StorageStyle", key, "str", TRUE, 0)
MP4L(key) == Style("MP4ListStorageStyle", key, "str", FALSE, 0)
MP4Tuple(key, index) == Style("MP4TupleStorageStyle", key, "str", FALSE, index)

(* Field descriptors: the kind of descriptor, its out_type, its styles in   *)
(* declared order.                                                          *)

MediaField(out_type, styles) == [kind |-> "MediaField", out_type |-> out_type, styles |-> styles]
ListMediaField(out_type, styles) == [kind |-> "ListMediaField", out_type |-> out_type, styles |-> styles]

title == MediaField("str", <<MP3("TIT2"), MP4("(c)nam"), SS("TITLE"), ASF("Title")>>)

label == MediaField("str", <<MP3("TPUB"), MP4("----:com.apple.iTunes:LABEL"), MP4("----:com.apple.iTunes:publisher"), MP4ro("----:com.apple.iTunes:Label"), SS("LABEL"), SS("PUBLISHER"), ASF("WM/Publisher")>>)

bpm == MediaField("int", <<MP3("TBPM"), Style("MP4StorageStyle", "tmpo", "int", FALSE, 0), SS("BPM"), ASF("WM/BeatsPerMinute")>>)

comp == MediaField("bool", <<MP3("TCMP"), Style("MP4BoolStorageStyle", "cpil", "str", FALSE, 0), SS("COMPILATION"), Style("ASFStorageStyle", "WM/IsCompilation", "bool", FALSE, 0)>>)

track == MediaField("int", <<MP3Slash("TRCK", 0), MP4Tuple("trkn", 0), SS("TRACK"), SS("TRACKNUMBER"), ASF("WM/TrackNumber")>>)

tracktotal == MediaField("int", <<MP3Slash("TRCK", 1), MP4Tuple("trkn", 1), SS("TRACKTOTAL"), SS("TRACKC"), SS("TOTALTRACKS"), ASF("TotalTracks")>>)

genres == ListMediaField("str", <<MP3L("TCON"), MP4L("(c)gen"), LSS("GENRE"), ASF("WM/Genre")>>)

\* ListMediaField.single_field: a MediaField over the same styles
single_field(f) == MediaField(f.out_type, f.styles)

genre == single_field(genres)

\* the ReplayGain fields that share the Sound Check tag
rg_track_gain ==
    MediaField("float", <<Places(MP3Desc("TXXX:REPLAYGAIN_TRACK_GAIN"), 2, <<" ", "d", "B">>), Places(MP3Desc("TXXX:replaygain_track_gain"), 2, <<" ", "d", "B">>),
                          Style("MP3SoundCheckStorageStyle", "COMM:iTunNORM:eng", "str", FALSE, 0),
                          Places(MP4("----:com.apple.iTunes:replaygain_track_gain"), 2, <<" ", "d", "B">>),
                          Style("MP4SoundCheckStorageStyle", "----:com.apple.iTunes:iTunNORM", "str", FALSE, 0),
                          Places(SS("REPLAYGAIN_TRACK_GAIN"), 2, <<" ", "d", "B">>), Places(ASF("replaygain_track_gain"), 2, <<" ", "d", "B">>)>>)
rg_track_peak ==
    MediaField("float", <<Places(MP3Desc("TXXX:REPLAYGAIN_TRACK_PEAK"), 6, <<>>), Places(MP3Desc("TXXX:replaygain_track_peak"), 6, <<>>),
                          Style("MP3SoundCheckStorageStyle", "COMM:iTunNORM:eng", "str", FALSE, 1),
                          Places(MP4("----:com.apple.iTunes:replaygain_track_peak"), 6, <<>>),
                          Style("MP4SoundCheckStorageStyle", "----:com.apple.iTunes:iTunNORM", "str", FALSE, 1),
                          Places(SS("REPLAYGAIN_TRACK_PEAK"), 6, <<>>), Places(ASF("replaygain_track_peak"), 6, <<>>)>>)

\* a null value that is None for every type
none_value_missing(out_type) == None

\* MediaField._none_value
none_value(out_type) ==
    CASE out_type = "int" -> IntV(0)
      [] out_type = "bool" -> BoolV(FALSE)
      [] out_type = "str" -> StrV(<<>>)
      [] out_type = "float" -> FloatV(0, 0)
      [] OTHER -> None

\* MediaField.styles: the styles whose formats hold the file's class, in order
styles(f, cls) == SelectSeq(f.styles, LAMBDA st : cls \in formats(st))

\* the loop without its break: the last style's value wins
RECURSIVE get_loop_nobreak(_, _, _)
get_loop_nobreak(mg, sts, out) ==
    IF sts = <<>> THEN out ELSE get_loop_nobreak(mg, Tail(sts), style_get(mg, Head(sts)))

\* the loop of MediaField.__get__: `out` after trying each style, stopping
\* at the first true value
RECURSIVE get_loop(_, _, _)
get_rest(o, mg, sts) == IF Truthy(o) THEN o ELSE get_loop(mg, sts, o)
get_loop(mg, sts, out) ==
    IF sts = <<>> THEN out ELSE get_rest(style_get(mg, Head(sts)), mg, Tail(sts))

\* MediaField.__get__
MediaField_get(mg, cls, f) == safe_cast(f.out_type, get_loop(mg, styles(f, cls), None))

\* the loop of ListMediaField.__get__
RECURSIVE list_get_loop(_, _, _)
CastAll(out_type, l) == ListV([i \in 1..Len(l) |-> safe_cast(out_type, l[i])])
list_get_rest(values, mg, sts, out_type) ==
    IF Failed(values) THEN values
    ELSE IF Truthy(values) THEN CastAll(out_type, values.l) ELSE list_get_loop(mg, sts, out_type)
list_get_loop(mg, sts, out_type) ==
    IF sts = <<>> THEN None ELSE list_get_rest(get_list(mg, Head(sts)), mg, Tail(sts), out_type)

\* ListMediaField.__get__
ListMediaField_get(mg, cls, f) == list_get_loop(mg, styles(f, cls), f.out_type)

\* one style's set or set_list
style_write(mg, st, value, aslist) == IF aslist THEN set_list(mg, st, value) ELSE style_set(mg, st, value)

\* the loop without the read_only test: every style is written
RECURSIVE set_loop_all(_, _, _, _)
set_rest_all(r, sts, value, aslist) == IF r.exc # None THEN r ELSE set_loop_all(r.mg, sts, value, aslist)
set_loop_all(mg, sts, value, aslist) ==
    IF sts = <<>> THEN Done(mg)
    ELSE set_rest_all(style_write(mg, Head(sts), value, aslist), Tail(sts), value, aslist)

\* the loop of MediaField.__set__ / ListMediaField.__set__: every style that
\* is not read_only is written in turn; an exception ends the loop
RECURSIVE set_loop(_, _, _, _)
set_rest(r, sts, value, aslist) == IF r.exc # None THEN r ELSE set_loop(r.mg, sts, value, aslist)
set_loop(mg, sts, value, aslist) ==
    IF sts = <<>> THEN Done(mg)
    ELSE IF Head(sts).read_only THEN set_loop(mg, Tail(sts), value, aslist)
    ELSE set_rest(style_write(mg, Head(sts), value, aslist), Tail(sts), value, aslist)

\* MediaField.__set__
MediaField_set(mg, cls, f, value) ==
    set_loop(mg, styles(f, cls), IF value.t = "none" THEN none_value(f.out_type) ELSE value, FALSE)

\* ListMediaField.__set__
ListMediaField_set(mg, cls, f, values) == set_loop(mg, styles(f, cls), values, TRUE)

\* MediaField.__delete__: every style's delete, read-only ones included
RECURSIVE delete_loop(_, _)
delete_loop(mg, sts) == IF sts = <<>> THEN mg ELSE delete_loop(style_delete(mg, Head(sts)), Tail(sts))

MediaField_delete(mg, cls, f) == delete_loop(mg, styles(f, cls))

-----------------------------------------------------------------------------
(* DateField and DateItemField. *)

\* a datetime.date
DateV(y, m, d) == [t |-> "date", y |-> y, m |-> m, d |-> d]

\* DateField(*date_styles, year=year_style): year_field is the MediaField
\* over the year styles, None when the descriptor has no _year_field
DateField(date_styles, year_style) ==
    [kind |-> "DateField", out_type |-> "str", styles |-> date_styles,
     year_field |-> IF year_style = <<>> THEN None ELSE MediaField("str", year_style)]

\* DateItemField(date_field, item_pos)
DateItemField(date_field, item_pos) == [kind |-> "DateItemField", date_field |-> date_field, item_pos |-> item_pos]

\* hasattr(self, '_year_field')
HasYearField(f) == f.year_field # None

\* the MediaField part of a DateField: what super().__get__ / __set__ act on
AsMediaField(f) == MediaField(f.out_type, f.styles)

\* '{0:04d}'.format(n) and '{0:02d}'.format(n)
RECURSIVE PadZeros(_, _)
PadZeros(text, width) == IF Len(text) < width THEN PadZeros(<<"0">> \o text, width) ELSE text
FormatD(n, width) == IF n < 0 THEN <<"-">> \o PadZeros(NatToText(0 - n), width - 1) ELSE PadZeros(NatToText(n), width)

\* re.sub(r'[Tt ].*$', '', s): s up to its first 'T', 't' or space
RECURSIVE CutTime(_)
CutTime(s) == IF s = <<>> \/ Head(s) \in {"T", "t", " "} THEN <<>> ELSE <<Head(s)>> \o CutTime(Tail(s))

\* re.split('[-/]', s)
RECURSIVE SplitDate(_, _)
SplitDate(s, cur) ==
    IF s = <<>> THEN <<cur>>
    ELSE IF Head(s) \in {"-", "/"} THEN <<cur>> \o SplitDate(Tail(s), <<>>)
    ELSE SplitDate(Tail(s), Append(cur, Head(s)))

\* '-'.join(texts)
RECURSIVE JoinHyphen(_)
JoinHyphen(texts) ==
    IF texts = <<>> THEN <<>>
    ELSE IF Len(texts) = 1 THEN texts[1]
    ELSE texts[1] \o <<"-">> \o JoinHyphen(Tail(texts))

\* re.split('[-/]', datestring) once the time is cut off; no parts when the
\* field holds no string
DateParts(datestring) == IF datestring.t = "str" THEN SplitDate(CutTime(datestring.s), <<>>) ELSE <<>>
\* the first three parts, padded with None to three items
FirstThree(parts) == [i \in 1..3 |-> IF i <= Len(parts) THEN StrV(parts[i]) ELSE None]
\* the year of the year field where the date string gives none
WithYear(items, mg, cls, f) ==
    IF ~Truthy(items[1]) /\ HasYearField(f)
    THEN [items EXCEPT ![1] = MediaField_get(mg, cls, f.year_field)]
    ELSE items
\* int(item), None when the conversion raises
IntOrNone(n) == IF IsExc(n) THEN None ELSE n
Numbers(items) == [i \in 1..3 |-> IntOrNone(PyInt(items[i]))]

\* DateField._get_date_tuple: <<year, month, day>>, each an int or None
get_date_tuple(mg, cls, f) ==
    Numbers(WithYear(FirstThree(DateParts(MediaField_get(mg, cls, AsMediaField(f)))), mg, cls, f))

\* a __delete__ that leaves the year styles alone
DateField_delete_primary(mg, cls, f) == MediaField_delete(mg, cls, AsMediaField(f))

\* the year styles deleted after the date styles
year_delete(mg, cls, f) == IF HasYearField(f) THEN MediaField_delete(mg, cls, f.year_field) ELSE mg

\* DateField.__delete__
DateField_delete(mg, cls, f) == year_delete(MediaField_delete(mg, cls, AsMediaField(f)), cls, f)

\* '-'.join(date) of the components that are given
date_string(y, m, d) ==
    StrV(JoinHyphen(<<FormatD(y.n, 4)>> \o (IF m = None THEN <<>> ELSE <<FormatD(m.n, 2)>>)
                      \o (IF d = None THEN <<>> ELSE <<FormatD(d.n, 2)>>)))
\* the year field written after the date string, when the descriptor has one
year_set(r, cls, f, year) ==
    IF r.exc # None \/ ~HasYearField(f) THEN r
    ELSE MediaField_set(r.mg, cls, f.year_field, year)
\* the date string and the year written, unless a conversion raised
write_date(mg, cls, f, year, y, m, d) ==
    IF IsExc(y) THEN Raised(mg, y)
    ELSE IF IsExc(m) THEN Raised(mg, m)
    ELSE IF IsExc(d) THEN Raised(mg, d)
    ELSE year_set(MediaField_set(mg, cls, AsMediaField(f), date_string(y, m, d)), cls, f, year)

\* a _set_date_tuple that writes the day whether or not there is a month
set_date_tuple_any_day(mg, cls, f, year, month, day) ==
    IF year = None THEN Done(DateField_delete(mg, cls, f))
    ELSE write_date(mg, cls, f, year, PyInt(year), IF Truthy(month) THEN PyInt(month) ELSE None,
                    IF Truthy(day) THEN PyInt(day) ELSE None)

\* DateField._set_date_tuple
set_date_tuple(mg, cls, f, year, month, day) ==
    IF year = None THEN Done(DateField_delete(mg, cls, f))
    ELSE write_date(mg, cls, f, year, PyInt(year), IF Truthy(month) THEN PyInt(month) ELSE None,
                    IF Truthy(month) /\ Truthy(day) THEN PyInt(day) ELSE None)

\* calendar: datetime.date(year, month, day) raises ValueError out of range
IsLeap(y) == (y % 4 = 0 /\ y % 100 # 0) \/ y % 400 = 0
DaysInMonth(y, m) ==
    IF m = 2 THEN (IF IsLeap(y) THEN 29 ELSE 28)
    ELSE IF m \in {4, 6, 9, 11} THEN 30 ELSE 31
ValidDate(y, m, d) == y \in 1..9999 /\ m \in 1..12 /\ d \in 1..DaysInMonth(y, m)

\* datetime.date(year, month, day), None when it raises ValueError
date_or_none(y, m, d) == IF ValidDate(y, m, d) THEN DateV(y, m, d) ELSE None
\* the date of a tuple: no date without a year, month and day default to 1
date_of(items) ==
    IF ~Truthy(items[1]) THEN None
    ELSE date_or_none(items[1].n, IF Truthy(items[2]) THEN items[2].n ELSE 1, IF Truthy(items[3]) THEN items[3].n ELSE 1)

\* DateField.__get__
DateField_get(mg, cls, f) == date_of(get_date_tuple(mg, cls, f))

\* self._set_date_tuple(mediafile, *items)
set_items(mg, cls, f, items) == set_date_tuple(mg, cls, f, items[1], items[2], items[3])
\* the components of a date, none of them for None
date_items(date) == IF date = None THEN <<None, None, None>> ELSE <<IntV(date.y), IntV(date.m), IntV(date.d)>>

\* DateField.__set__
DateField_set(mg, cls, f, date) == set_items(mg, cls, f, date_items(date))

\* DateItemField.__get__
DateItemField_get(mg, cls, f) == get_date_tuple(mg, cls, f.date_field)[f.item_pos + 1]

\* a __set__ that starts from an empty tuple instead of the parent's
DateItemField_set_fresh(mg, cls, f, value) ==
    set_items(mg, cls, f.date_field, [<<None, None, None>> EXCEPT ![f.item_pos + 1] = value])

\* DateItemField.__set__
DateItemField_set(mg, cls, f, value) ==
    set_items(mg, cls, f.date_field, [get_date_tuple(mg, cls, f.date_field) EXCEPT ![f.item_pos + 1] = value])

\* DateItemField.__delete__
DateItemField_delete(mg, cls, f) == DateItemField_set(mg, cls, f, None).mg

\* MediaFile.date and MediaFile.original_date
date == DateField(<<MP3("TDRC"), MP4("(c)day"), SS("DATE"), ASF("WM/Year")>>, <<SS("YEAR")>>)

original_date ==
    DateField(<<MP3("TDOR"), MP4("----:com.apple.iTunes:ORIGINAL YEAR"), MP4("----:com.apple.iTunes:ORIGINALDATE"),
                SS("ORIGINALDATE"), ASF("WM/OriginalReleaseYear")>>, <<>>)

\* attribute access dispatches on the descriptor's class
-----------------------------------------------------------------------------
(* QNumberField. *)

\* QNumberField(fraction_bits, *styles): out_type is int
QNumberField(fraction_bits, sts) ==
    [kind |-> "QNumberField", out_type |-> "int", styles |-> sts, fraction_bits |-> fraction_bits]

\* q_num / pow(2, fraction_bits)
q_float(q_num, fraction_bits) == IF q_num = None THEN None ELSE FloatV(q_num.n, fraction_bits)

\* QNumberField.__get__
QNumberField_get(mg, cls, f) == q_float(MediaField_get(mg, cls, MediaField(f.out_type, f.styles)), f.fraction_bits)

\* round(value * pow(2, fraction_bits)) for a number
q_round(value, fraction_bits) ==
    CASE value.t = "float" -> IntV(round(value.n * Pow2(fraction_bits), Pow2(value.k)))
      [] value.t = "int" -> IntV(value.n * Pow2(fraction_bits))
      [] value.t = "bool" -> IntV(IF value.b THEN Pow2(fraction_bits) ELSE 0)

\* QNumberField.__set__: value * pow(2, fraction_bits) is rounded, and raises
\* TypeError for a value that is no number
QNumberField_set(mg, cls, f, value) ==
    IF IsNumber(value) THEN MediaField_set(mg, cls, MediaField(f.out_type, f.styles), q_round(value, f.fraction_bits))
    ELSE Raised(mg, Exc("TypeError"))

\* MediaFile.r128_track_gain and MediaFile.r128_album_gain
r128_track_gain ==
    QNumberField(8, <<MP3Desc("TXXX:R128_TRACK_GAIN"), MP4("----:com.apple.iTunes:R128_TRACK_GAIN"), SS("R128_TRACK_GAIN"), ASF("R128_TRACK_GAIN")>>)
r128_album_gain ==
    QNumberField(8, <<MP3Desc("TXXX:R128_ALBUM_GAIN"), MP4("----:com.apple.iTunes:R128_ALBUM_GAIN"), SS("R128_ALBUM_GAIN"), ASF("R128_ALBUM_GAIN")>>)

-----------------------------------------------------------------------------
(* The image list and the cover art. *)

\* ImageListField(): the image styles in declared order, out_type Image
ImageListField ==
    ListMediaField("Image", <<Style("MP3ImageStorageStyle", "APIC", "bytes", FALSE, 0), Style("MP4ImageStorageStyle", "covr", "str", FALSE, 0),
                              Style("ASFImageStorageStyle", "WM/Picture", "str", FALSE, 0),
                              Style("VorbisImageStorageStyle", "metadata_block_picture", "bytes", FALSE, 0),
                              Style("FlacImageStorageStyle", "", "str", FALSE, 0), Style("APEv2ImageStorageStyle", "", "str", FALSE, 0)>>)

\* MediaFile.images
images == ImageListField

\* CoverArtField()
CoverArtField == [kind |-> "CoverArtField"]

\* a guess that takes the first image whatever the types
guess_first(candidates) == candidates[1]

\* CoverArtField.guess_cover_image
guess_cover_image(candidates) ==
    IF Len(candidates) = 1 THEN candidates[1]
    ELSE IF \E i \in 1..Len(candidates) : candidates[i].type = front
    THEN candidates[CHOOSE i \in 1..Len(candidates) : candidates[i].type = front /\ \A j \in 1..(i - 1) : candidates[j].type # front]
    ELSE candidates[1]

\* the data of the image guessed among the candidates
cover_data(candidates) ==
    IF Failed(candidates) THEN candidates
    ELSE IF Truthy(candidates) THEN guess_cover_image(candidates.l).data ELSE None

\* CoverArtField.__get__
CoverArtField_get(mg, cls, f) == cover_data(ListMediaField_get(mg, cls, images))

\* CoverArtField.__set__
CoverArtField_set(mg, cls, f, data) ==
    IF Truthy(data) /\ data.t # "bytes" THEN Raised(mg, Exc("AssertionError"))
    ELSE ListMediaField_set(mg, cls, images, ListV(IF Truthy(data) THEN <<Image(data, None, None)>> ELSE <<>>))

\* CoverArtField.__delete__
CoverArtField_delete(mg, cls, f) == MediaField_delete(mg, cls, images)

\* getattr, setattr and delattr of a field: the descriptor's method
field_get(mg, cls, f) ==
    CASE f.kind = "CoverArtField" -> CoverArtField_get(mg, cls, f)
      [] f.kind = "QNumberField" -> QNumberField_get(mg, cls, f)
      [] f.kind = "ListMediaField" -> ListMediaField_get(mg, cls, f)
      [] f.kind = "DateField" -> DateField_get(mg, cls, f)
      [] f.kind = "DateItemField" -> DateItemField_get(mg, cls, f)
      [] OTHER -> MediaField_get(mg, cls, f)
field_set(mg, cls, f, value) ==
    CASE f.kind = "CoverArtField" -> CoverArtField_set(mg, cls, f, value)
      [] f.kind = "QNumberField" -> QNumberField_set(mg, cls, f, value)
      [] f.kind = "ListMediaField" -> ListMediaField_set(mg, cls, f, value)
      [] f.kind = "DateField" -> DateField_set(mg, cls, f, value)
      [] f.kind = "DateItemField" -> DateItemField_set(mg, cls, f, value)
      [] OTHER -> MediaField_set(mg, cls, f, value)
field_delete(mg, cls, f) ==
    CASE f.kind = "CoverArtField" -> CoverArtField_delete(mg, cls, f)
      [] f.kind = "DateField" -> DateField_delete(mg, cls, f)
      [] f.kind = "DateItemField" -> DateItemField_delete(mg, cls, f)
      [] OTHER -> MediaField_delete(mg, cls, f)

-----------------------------------------------------------------------------
(* The facade class and the files it is opened on. *)

\* The objects a class attribute can be bound to, by name: the descriptors
\* of the class body modelled here, two attributes that are not fields, and
\* the objects handed to add_field.
Object(id) ==
    CASE id = "title" -> title
      [] id = "label" -> label
      [] id = "bpm" -> bpm
      [] id = "comp" -> comp
      [] id = "track" -> track
      [] id = "tracktotal" -> tracktotal
      [] id = "genres" -> genres
      [] id = "genre" -> genre
      [] id = "date" -> date
      [] id = "year" -> DateItemField(date, 0)
      [] id = "month" -> DateItemField(date, 1)
      [] id = "day" -> DateItemField(date, 2)
      [] id = "original_date" -> original_date
      [] id = "original_year" -> DateItemField(original_date, 0)
      [] id = "original_month" -> DateItemField(original_date, 1)
      [] id = "original_day" -> DateItemField(original_date, 2)
      [] id = "rg_track_gain" -> rg_track_gain
      [] id = "rg_track_peak" -> rg_track_peak
      [] id = "r128_track_gain" -> r128_track_gain
      [] id = "r128_album_gain" -> r128_album_gain
      [] id = "art" -> CoverArtField
      [] id = "images" -> images
      [] id = "save" -> [kind |-> "function"]
      [] id = "length" -> [kind |-> "property"]
      [] id = "custom" -> MediaField("str", <<MP3("TIT3"), MP4("----:com.apple.iTunes:customtag"), SS("customtag"), ASF("customtag")>>)
      [] id = "customlist" -> ListMediaField("str", <<MP3L("TCOM"), MP4L("(c)wrt"), LSS("customlist"), ASF("customlist")>>)
      [] OTHER -> [kind |-> "object"]

\* MediaFile.__dict__ as the class body leaves it: each name bound to the
\* object of that name
ClassBody == [n \in {"title", "label", "bpm", "comp", "track", "tracktotal", "genres", "genre", "save", "length"} |-> n]

\* MediaFile.__dict__ with the date fields and their components as well
DateClassBody ==
    [n \in (DOMAIN ClassBody) \cup {"date", "year", "month", "day", "original_date", "original_year", "original_month", "original_day"} |-> n]

\* MediaFile.__dict__ with the cover art and the image list as well
ImageClassBody == [n \in (DOMAIN ClassBody) \cup {"art", "images"} |-> n]

\* MediaFile.__dict__ with the ReplayGain fields of a track as well
ReplayGainClassBody == [n \in (DOMAIN ClassBody) \cup {"rg_track_gain", "rg_track_peak"} |-> n]

\* MediaFile.__dict__ with the EBU R128 gains as well
GainClassBody == [n \in (DOMAIN ClassBody) \cup {"r128_track_gain", "r128_album_gain"} |-> n]

\* isinstance(descriptor, MediaField): MediaField or one of its subclasses
IsMediaField(d) == d.kind \in {"MediaField", "ListMediaField", "DateField", "DateItemField", "CoverArtField", "QNumberField"}

\* MediaFile.fields
fields(cd) == {n \in DOMAIN cd : IsMediaField(Object(cd[n]))}

\* the descriptor that attribute `name` of the class resolves to
Descriptor(cd, name) == Object(cd[name])

\* the branches of MediaFile.__init__ that map the codec's class to self.type
\* (an M4A/MP4 object is 'alac' or 'aac' by its codec)
TypeOfClass(cls, alac) ==
    CASE cls \in {"M4A", "MP4"} -> IF alac THEN "alac" ELSE "aac"
      [] cls \in {"ID3", "MP3"} -> "mp3"
      [] cls = "FLAC" -> "flac"
      [] cls = "OggOpus" -> "opus"
      [] cls = "OggVorbis" -> "ogg"
      [] cls = "MonkeysAudio" -> "ape"
      [] cls = "WavPack" -> "wv"
      [] cls = "Musepack" -> "mpc"
      [] cls = "ASF" -> "asf"
      [] cls = "AIFF" -> "aiff"
      [] cls = "DSF" -> "dsf"
      [] cls = "WAVE" -> "wav"
      [] OTHER -> "unsupported"

\* TYPES: the human-readable name of each type, kept whole
TYPES ==
    [mp3 |-> "MP3", aac |-> "AAC", alac |-> "ALAC", ogg |-> "OGG", opus |-> "Opus", flac |-> "FLAC", ape |-> "APE",
     wv |-> "WavPack", mpc |-> "Musepack", asf |-> "Windows Media", aiff |-> "AIFF", dsf |-> "DSD Stream File", wav |-> "WAVE"]

\* a dictionary from a sequence of <<key, value>> pairs
Dict(pairs) == [k \in {pairs[i][1] : i \in 1..Len(pairs)} |-> pairs[CHOOSE i \in 1..Len(pairs) : pairs[i][1] = k][2]]
One(v) == ListV(<<v>>)
Txt(s) == One(StrV(s))

\* The tag sets of the files the model opens, per codec class: a file with
\* no tag yet, a fully tagged file, and a file tagged by other software
\* (alternative and wrongly named keys, empty values, a pair without total).
FileTags(cls) ==
    CASE cls \in MP3Formats ->
            { EmptyTags,
              Dict(<< <<"TIT2", Txt(<<"a">>)>>, <<"TPUB", Txt(<<"b">>)>>, <<"TBPM", Txt(<<"7">>)>>, <<"TCMP", Txt(<<"1">>)>>,
                      <<"TRCK", Txt(<<"5", "/", "3">>)>>, <<"TCON", ListV(<<StrV(<<"a">>), StrV(<<"b">>)>>)>> >>),
              Dict(<< <<"TIT2", Txt(<<>>)>>, <<"TRCK", Txt(<<"2">>)>>, <<"TCON", ListV(<<>>)>> >>) }
      [] cls \in MP4Formats ->
            { EmptyTags,
              Dict(<< <<"(c)nam", Txt(<<"a">>)>>, <<"----:com.apple.iTunes:LABEL", One(BytesV(<<"b">>))>>, <<"tmpo", One(IntV(7))>>,
                      <<"cpil", BoolV(TRUE)>>, <<"trkn", One(ListV(<<IntV(5), IntV(3)>>))>>, <<"(c)gen", ListV(<<StrV(<<"a">>), StrV(<<"b">>)>>)>> >>),
              Dict(<< <<"----:com.apple.iTunes:Label", One(BytesV(<<"c">>))>>, <<"trkn", One(ListV(<<IntV(2), IntV(0)>>))>>, <<"(c)nam", ListV(<<>>)>> >>) }
      [] cls \in ASFFormats ->
            { EmptyTags,
              Dict(<< <<"Title", Txt(<<"a">>)>>, <<"WM/Publisher", Txt(<<"b">>)>>, <<"WM/BeatsPerMinute", Txt(<<"7">>)>>, <<"WM/IsCompilation", One(BoolV(TRUE))>>,
                      <<"WM/TrackNumber", Txt(<<"5">>)>>, <<"TotalTracks", Txt(<<"3">>)>>, <<"WM/Genre", ListV(<<StrV(<<"a">>), StrV(<<"b">>)>>)>> >>),
              Dict(<< <<"Title", Txt(<<>>)>>, <<"WM/TrackNumber", One(IntV(2))>>, <<"WM/Genre", ListV(<<>>)>> >>) }
      [] OTHER ->
            { EmptyTags,
              Dict(<< <<"TITLE", Txt(<<"a">>)>>, <<"LABEL", Txt(<<"b">>)>>, <<"BPM", Txt(<<"7">>)>>, <<"COMPILATION", Txt(<<"1">>)>>,
                      <<"TRACK", Txt(<<"5">>)>>, <<"TRACKTOTAL", Txt(<<"3">>)>>, <<"GENRE", ListV(<<StrV(<<"a">>), StrV(<<"b">>)>>)>> >>),
              Dict(<< <<"TITLE", Txt(<<>>)>>, <<"PUBLISHER", Txt(<<"c">>)>>, <<"TRACKNUMBER", Txt(<<"2">>)>>, <<"TOTALTRACKS", Txt(<<"9">>)>>, <<"GENRE", ListV(<<>>)>> >>) }

\* the classes mutagen.File returns that MediaFile.__init__ maps to a family
\* (ID3 and M4A are mapped too, but mutagen.File builds no object of either)
OpenClasses == {"MP3", "MP4", "FLAC", "OggOpus", "OggVorbis", "MonkeysAudio", "WavPack", "Musepack", "ASF", "AIFF", "DSF", "WAVE"}

\* the classes whose files the field operations are explored on: every
\* family of formats lists, two classes for the families that have several
FieldClasses == {"MP3", "AIFF", "MP4", "FLAC", "OggVorbis", "MonkeysAudio", "ASF"}

\* the values the model assigns to a field, by the field's out_type: none,
\* values of the type, and for an integer field also text
InputValues(f) ==
    CASE f.kind = "ListMediaField" -> {None, ListV(<<>>), ListV(<<StrV(<<"c">>)>>), ListV(<<StrV(<<"b">>), StrV(<<"a">>)>>)}
      [] f.out_type = "int" -> {None, IntV(0), IntV(12), StrV(<<"4">>), StrV(<<"x">>)}
      [] f.out_type = "bool" -> {None, BoolV(TRUE), BoolV(FALSE)}
      [] f.out_type = "float" -> {None, FloatV(1, 1), FloatV(0 - 10, 0), StrV(<<"x">>)}
      [] OTHER -> {None, StrV(<<>>), StrV(<<"d">>)}

NoOp == [op |-> "init", field |-> "", arg |-> None]
NoInfo == [length |-> 0]
\* a file on disk: the class the codec detects ("none" when it recognises
\* no structure), whether it carries a tag set, the tag set, the audio-info
\* structure the codec derives from it, and its size in bytes
File(cls, tagged, t, i, size) == [cls |-> cls, tagged |-> tagged, tags |-> t, info |-> i, size |-> size]

-----------------------------------------------------------------------------
(* Field access on an open facade. *)

\* getattr(mediafile, name)
FieldGet(name) ==
    /\ phase = "Open" /\ nops < MaxOps
    /\ name \in fields(clsdict)
    /\ ret' = field_get(tags, mgclass, Descriptor(clsdict, name))
    /\ last' = [op |-> "get", field |-> name, arg |-> None]
    /\ calls' = <<>>
    /\ nops' = nops + 1
    /\ UNCHANGED <<phase, mgclass, type, id3v23, hastags, tags, info, disk, clsdict>>

\* an assignment that also writes the tag set to the file
FieldSet_flush(name, value) ==
    /\ phase = "Open" /\ nops < MaxOps
    /\ name \in fields(clsdict)
    /\ \E r \in {field_set(tags, mgclass, Descriptor(clsdict, name), value)} :
          /\ tags' = r.mg
          /\ ret' = r.exc
          /\ disk' = [disk EXCEPT !.tagged = TRUE, !.tags = r.mg]
    /\ last' = [op |-> "set", field |-> name, arg |-> value]
    /\ calls' = <<>>
    /\ nops' = nops + 1
    /\ UNCHANGED <<phase, mgclass, type, id3v23, hastags, info, clsdict>>

\* setattr(mediafile, name, value)
FieldSet(name, value) ==
    /\ phase = "Open" /\ nops < MaxOps
    /\ name \in fields(clsdict)
    /\ \E r \in {field_set(tags, mgclass, Descriptor(clsdict, name), value)} :
          /\ tags' = r.mg
          /\ ret' = r.exc
    /\ last' = [op |-> "set", field |-> name, arg |-> value]
    /\ calls' = <<>>
    /\ nops' = nops + 1
    /\ UNCHANGED <<phase, mgclass, type, id3v23, hastags, info, disk, clsdict>>

\* delattr(mediafile, name)
FieldDelete(name) ==
    /\ phase = "Open" /\ nops < MaxOps
    /\ name \in fields(clsdict)
    /\ tags' = field_delete(tags, mgclass, Descriptor(clsdict, name))
    /\ ret' = None
    /\ last' = [op |-> "delete", field |-> name, arg |-> None]
    /\ calls' = <<>>
    /\ nops' = nops + 1
    /\ UNCHANGED <<phase, mgclass, type, id3v23, hastags, info, disk, clsdict>>

\* a facade just constructed over one of the files
InitFields ==
    /\ phase = "Open"
    /\ mgclass \in FieldClasses
    /\ type = TypeOfClass(mgclass, FALSE)
    /\ id3v23 = FALSE
    /\ hastags = TRUE
    /\ tags \in FileTags(mgclass)
    /\ info = NoInfo
    /\ disk = File(mgclass, TRUE, tags, info, 0)
    /\ clsdict = ClassBody
    /\ last = NoOp
    /\ ret = None
    /\ calls = <<>>
    /\ nops = 0

NextFields ==
    \/ \E name \in fields(ClassBody) : FieldGet(name)
    \/ \E name \in fields(ClassBody) : \E value \in InputValues(Descriptor(ClassBody, name)) : FieldSet(name, value)
    \/ \E name \in fields(ClassBody) : FieldDelete(name)

SpecFields == InitFields /\ [][NextFields]_vars

-----------------------------------------------------------------------------
(* Properties of field access. *)

\* the field the last operation was about
LastField == Descriptor(clsdict, last.field)
IsScalar(f) == f.kind = "MediaField"

\* the positions of f's styles that apply to class cls
Applicable(f, cls) == {i \in 1..Len(f.styles) : cls \in formats(f.styles[i])}
\* the applicable positions whose style reads a non-empty value from mg
Hits(mg, f, cls) == {i \in Applicable(f, cls) : Truthy(style_get(mg, f.styles[i]))}
FirstHit(mg, f, cls) == CHOOSE i \in Hits(mg, f, cls) : \A j \in Hits(mg, f, cls) : i <= j
\* f with the styles declared after position i removed
Upto(f, i) == [f EXCEPT !.styles = SubSeq(f.styles, 1, i)]

\* v cast to the declared type of f
coerce(f, v) ==
    IF IsScalar(f) \/ v.t # "list" THEN safe_cast(f.out_type, v)
    ELSE ListV([i \in 1..Len(v.l) |-> safe_cast(f.out_type, v.l[i])])

\* the zero value of f's declared type
ZeroValue(f) == IF IsScalar(f) THEN none_value(f.out_type) ELSE ListV(<<>>)

\* C1: get() on a scalar field returns the coerced value of the first
\* applicable style, in declared order, whose value is non-empty, and the
\* styles declared after that one do not influence the result.
C1_FirstNonEmpty ==
    (last.op = "get" /\ IsScalar(LastField) /\ Hits(tags, LastField, mgclass) # {}) =>
        LET i == FirstHit(tags, LastField, mgclass)
        IN /\ ret = safe_cast(LastField.out_type, style_get(tags, LastField.styles[i]))
           /\ ret = MediaField_get(tags, mgclass, Upto(LastField, i))

\* a get that skipped an empty first style and returned a later style's value
C1_Witness ==
    /\ last.op = "get" /\ last.field = "label" /\ mgclass = "FLAC"
    /\ ~HasKey(tags, "LABEL") /\ HasKey(tags, "PUBLISHER")
    /\ ret = StrV(<<"c">>)

\* C2: when no applicable style of a field yields a value, get() returns
\* the zero value of the field's declared type (0, "", false, empty list).
C2_ZeroValueWhenEmpty ==
    (last.op = "get" /\ \A i \in Applicable(LastField, mgclass) : style_get(tags, LastField.styles[i]) = None) =>
        ret = ZeroValue(LastField)

\* C3: set(v) followed by get() returns v cast to the field's declared
\* type; for a list field the same elements in the same order.
C3_SetThenGet ==
    (last.op = "set" /\ ret = None /\ last.arg # None) =>
        field_get(tags, mgclass, LastField) = coerce(LastField, last.arg)

\* what a style of f reads back, cast to f's type
Reads(mg, f, st) ==
    IF IsScalar(f) THEN safe_cast(f.out_type, style_get(mg, st))
    ELSE LET values == get_list(mg, st)
         IN IF Truthy(values) THEN coerce(f, values) ELSE None
\* the value set(v) hands to the styles
Written(f, v) == IF IsScalar(f) /\ v = None THEN none_value(f.out_type) ELSE v
\* reading w back through style st of f observes w
Observes(mg, f, st, w) ==
    IF IsScalar(f) THEN Reads(mg, f, st) = coerce(f, w)
    ELSE Reads(mg, f, st) = (IF Truthy(w) THEN coerce(f, w) ELSE None)
\* a tuple-packed element stored as 0 reads as unset
ReadsUnset(mg, st, w) == st.cls = "MP4TupleStorageStyle" /\ PyInt(w) = IntV(0) /\ style_get(mg, st) = None
\* the slot of style st is the same in mg1 and mg2
SameSlot(mg1, mg2, st) == (HasKey(mg1, st.key) <=> HasKey(mg2, st.key)) /\ (HasKey(mg1, st.key) => mg1[st.key] = mg2[st.key])
\* the step is a set that returned normally
SetStep == last'.op = "set" /\ nops' = nops + 1 /\ ret' = None

C5_DeleteThenZero ==
    last.op = "delete" =>
        /\ \A i \in Applicable(LastField, mgclass) : ~Truthy(style_get(tags, LastField.styles[i]))
        /\ field_get(tags, mgclass, LastField) = ZeroValue(LastField)

-----------------------------------------------------------------------------
(* Opening, saving and deleting: the calls into the codec. *)

\* what a call into the codec does: it returns, raises the codec's own
\* error, or raises something else (a defect of the codec)
Returns == [t |-> "return"]
CodecOutcomes == {Returns, Exc("mutagen.MutagenError"), Exc("TypeError")}

\* UnreadableFileError and its subclasses
UnreadableFileErrors == {"UnreadableFileError", "FileTypeError", "MutagenError"}

\* FileTypeError(filename, mutagen_type)
FileTypeError(mutagen_type) == [t |-> "exc", e |-> "FileTypeError", mutagen_type |-> mutagen_type]

\* mutagen_call, from the outcome of func(*args, **kwargs) to its own
mutagen_call(o) ==
    CASE ~IsExc(o) -> o
      [] o.e = "mutagen.MutagenError" -> Exc("UnreadableFileError")
      [] o.e \in UnreadableFileErrors -> o
      [] OTHER -> Exc("MutagenError")

\* one call into the codec: the function, the mutagen_call it ran under
\* ("direct" when under none), and what it did
Call(func, via, raw) == [func |-> func, via |-> via, raw |-> raw]

\* info.codec and info.codec.startswith('alac')
StartsWith(s, prefix) == Len(s) >= Len(prefix) /\ SubSeq(s, 1, Len(prefix)) = prefix
IsAlac(i) == "codec" \in DOMAIN i /\ Truthy(i["codec"]) /\ StartsWith(i["codec"].s, <<"a", "l", "a", "c">>)

\* the constructor without the branch that adds a missing tag set
MediaFile_init_keep_missing(d, id3v23_arg, o_file, o_tags) ==
    LET opened == mutagen_call(o_file)
        c1 == <<Call("File", "open", o_file)>>
        ty == TypeOfClass(d.cls, IsAlac(d.info))
        failed(e, cs) == [exc |-> e, type |-> "", hastags |-> FALSE, tags |-> EmptyTags, id3v23 |-> FALSE, calls |-> cs]
    IN IF IsExc(opened) THEN failed(opened, c1)
       ELSE IF d.cls = "none" THEN failed(FileTypeError(None), c1)
       ELSE IF ty = "unsupported" THEN failed(FileTypeError(StrV(d.cls)), c1)
       ELSE [exc |-> None, type |-> ty, hastags |-> d.tagged,
             tags |-> IF d.tagged THEN d.tags ELSE EmptyTags,
             id3v23 |-> id3v23_arg /\ ty = "mp3", calls |-> c1]

\* the body of MediaFile.__init__ on file d: what it raises (None when it
\* completes), the attributes it sets and the codec calls it makes
MediaFile_init(d, id3v23_arg, o_file, o_tags) ==
    LET opened == mutagen_call(o_file)
        c1 == <<Call("File", "open", o_file)>>
        ty == TypeOfClass(d.cls, IsAlac(d.info))
        failed(e, cs) == [exc |-> e, type |-> "", hastags |-> FALSE, tags |-> EmptyTags, id3v23 |-> FALSE, calls |-> cs]
    IN IF IsExc(opened) THEN failed(opened, c1)
       ELSE IF d.cls = "none" THEN failed(FileTypeError(None), c1)
       ELSE IF ty = "unsupported" THEN failed(FileTypeError(StrV(d.cls)), c1)
       ELSE IF ~d.tagged /\ IsExc(o_tags) THEN failed(o_tags, c1 \o <<Call("add_tags", "loadfile", o_tags)>>)
       ELSE [exc |-> None, type |-> ty, hastags |-> TRUE,
             tags |-> IF d.tagged THEN d.tags ELSE EmptyTags,
             id3v23 |-> id3v23_arg /\ ty = "mp3",
             calls |-> IF d.tagged THEN c1 ELSE c1 \o <<Call("add_tags", "loadfile", o_tags)>>]

NoFacade == [mgclass |-> "none", type |-> "", id3v23 |-> FALSE, hastags |-> FALSE, tags |-> EmptyTags, info |-> NoInfo]

\* MediaFile(filething, id3v23): the loadfile wrapper opens the file and
\* runs __init__ under mutagen_call('loadfile', ...)
Open(id3v23_arg, o_load, o_file, o_tags) ==
    /\ phase = "Closed"
    /\ LET c0 == <<Call("loadfile", "loadfile", o_load)>>
           r == MediaFile_init(disk, id3v23_arg, o_file, o_tags)
           out == mutagen_call(IF IsExc(o_load) THEN o_load ELSE r.exc)
       IN /\ ret' = out
          /\ calls' = IF IsExc(o_load) THEN c0 ELSE c0 \o r.calls
          /\ IF out = None
             THEN /\ phase' = "Open"
                  /\ mgclass' = disk.cls
                  /\ type' = r.type
                  /\ id3v23' = r.id3v23
                  /\ hastags' = r.hastags
                  /\ tags' = r.tags
                  /\ info' = disk.info
             ELSE UNCHANGED <<phase, mgclass, type, id3v23, hastags, tags, info>>
    /\ last' = [op |-> "open", field |-> "", arg |-> BoolV(id3v23_arg)]
    /\ UNCHANGED <<disk, clsdict, nops>>

\* MediaFile.save
Save(o_v23, o_save) ==
    /\ phase = "Open"
    /\ LET c1 == IF id3v23 THEN <<Call("update_to_v23", "direct", o_v23)>> ELSE <<>>
       IN IF id3v23 /\ IsExc(o_v23)
          THEN /\ ret' = o_v23
               /\ calls' = c1
               /\ UNCHANGED disk
          ELSE /\ ret' = mutagen_call(IF IsExc(o_save) THEN o_save ELSE None)
               /\ calls' = c1 \o <<Call("save", "save", o_save)>>
               /\ IF IsExc(o_save) THEN disk' \in {disk, [disk EXCEPT !.tagged = TRUE, !.tags = tags]}
                  ELSE disk' = [disk EXCEPT !.tagged = TRUE, !.tags = tags]
    /\ last' = [op |-> "save", field |-> "", arg |-> None]
    /\ UNCHANGED <<phase, mgclass, type, id3v23, hastags, tags, info, clsdict, nops>>

\* MediaFile.delete: the codec removes the tag from the file and may empty
\* the in-memory tag set with it
Delete(o_delete, cleared) ==
    /\ phase = "Open"
    /\ ret' = mutagen_call(IF IsExc(o_delete) THEN o_delete ELSE None)
    /\ calls' = <<Call("delete", "delete", o_delete)>>
    /\ IF IsExc(o_delete) THEN UNCHANGED <<disk, tags>>
       ELSE /\ disk' = [disk EXCEPT !.tagged = FALSE, !.tags = EmptyTags]
            /\ tags' = IF cleared THEN EmptyTags ELSE tags
    /\ last' = [op |-> "delete_tags", field |-> "", arg |-> None]
    /\ UNCHANGED <<phase, mgclass, type, id3v23, hastags, info, clsdict, nops>>

\* the last reference to the facade is dropped: nothing is written
Close ==
    /\ phase = "Open"
    /\ phase' = "Closed"
    /\ mgclass' = NoFacade.mgclass
    /\ type' = NoFacade.type
    /\ id3v23' = NoFacade.id3v23
    /\ hastags' = NoFacade.hastags
    /\ tags' = NoFacade.tags
    /\ info' = NoFacade.info
    /\ last' = [op |-> "close", field |-> "", arg |-> None]
    /\ ret' = None
    /\ calls' = <<>>
    /\ UNCHANGED <<disk, clsdict, nops>>

\* the classes of the files the lifecycle is explored on: one class of each
\* family of formats, a class the constructor does not map and a file the
\* codec recognises no structure in
LifeClasses == {"MP3", "MP4", "FLAC", "ASF", "TrueAudio", "none"}

\* the audio-info structures of those files
LifeInfo(cls) ==
    IF cls = "MP4" THEN {Dict(<< <<"length", IntV(2)>>, <<"codec", StrV(<<"a", "l", "a", "c">>)>> >>), Dict(<< <<"length", IntV(2)>>, <<"codec", StrV(<<"m", "p", "4", "a">>)>> >>)}
    ELSE {NoInfo}

\* the files: tagged ones and ones without a tag set
LifeFiles ==
    UNION {{File(c, TRUE, t, i, 0) : t \in FileTags(c), i \in LifeInfo(c)} \cup {File(c, FALSE, EmptyTags, i, 0) : i \in LifeInfo(c)} : c \in LifeClasses}

\* the fields read and written between opening and saving
LifeFields == {"title", "track", "genres"}

Init ==
    /\ phase = "Closed"
    /\ mgclass = NoFacade.mgclass
    /\ type = NoFacade.type
    /\ id3v23 = NoFacade.id3v23
    /\ hastags = NoFacade.hastags
    /\ tags = NoFacade.tags
    /\ info = NoFacade.info
    /\ disk \in LifeFiles
    /\ clsdict = ClassBody
    /\ last = NoOp
    /\ ret = None
    /\ calls = <<>>
    /\ nops = 0

Next ==
    \/ \E id3v23_arg \in BOOLEAN : \E o_load, o_file, o_tags \in CodecOutcomes : Open(id3v23_arg, o_load, o_file, o_tags)
    \/ \E name \in LifeFields : FieldGet(name)
    \/ \E name \in LifeFields : \E value \in InputValues(Descriptor(ClassBody, name)) : FieldSet(name, value)
    \/ \E name \in LifeFields : FieldDelete(name)
    \/ \E o_v23, o_save \in CodecOutcomes : Save(o_v23, o_save)
    \/ \E o_delete \in CodecOutcomes : \E cleared \in BOOLEAN : Delete(o_delete, cleared)
    \/ Close

Spec == Init /\ [][Next]_vars

-----------------------------------------------------------------------------
(* Properties of opening, saving and deleting. *)

\* the step is a save, or an open, that returned normally
SaveOk == last'.op = "save" /\ ret' = None /\ phase = "Open"
OpenOk == last'.op = "open" /\ ret' = None /\ phase = "Closed"

AllReturned == \A i \in 1..Len(calls) : ~IsExc(calls[i].raw)

\* C7: opening either fails, leaving no facade, or yields a facade whose
\* type is a key of TYPES and whose tag set is not null; a file the codec
\* recognises nothing in fails with a FileTypeError without a type, a class
\* the constructor does not map fails with a FileTypeError carrying the
\* class name, and a file without a tag set gets an empty one.
C7_OpenFailsOrSupported ==
    last.op = "open" =>
        /\ \/ IsExc(ret) /\ phase = "Closed"
           \/ ret = None /\ phase = "Open" /\ type \in DOMAIN TYPES /\ hastags /\ mgclass = disk.cls
        /\ (AllReturned /\ disk.cls = "none") => ret = FileTypeError(None)
        /\ (AllReturned /\ disk.cls \notin OpenClasses \cup {"none"}) => ret = FileTypeError(StrV(disk.cls))
        /\ (ret = None /\ ~disk.tagged) => (tags = EmptyTags /\ \E i \in 1..Len(calls) : calls[i].func = "add_tags")

\* a file without a tag set opened successfully
C7_Witness ==
    /\ last.op = "open" /\ ret = None /\ phase = "Open"
    /\ ~disk.tagged /\ hastags /\ tags = EmptyTags

\* the outcome the error taxonomy prescribes for what a codec call did
Mapped(raw) ==
    IF ~IsExc(raw) THEN None
    ELSE IF raw.e = "mutagen.MutagenError" THEN Exc("UnreadableFileError")
    ELSE IF raw.e \in {"UnreadableFileError", "FileTypeError"} THEN raw
    ELSE Exc("MutagenError")

\* C8: every codec call made for open, save or delete runs under
\* mutagen_call, each codec function is invoked once, and a call that
\* raises ends the operation with the mapped error.
C8_EveryCallMapped ==
    last.op \in {"open", "save", "delete_tags"} =>
        /\ \A i \in 1..Len(calls) :
            /\ calls[i].via # "direct"
            /\ IsExc(calls[i].raw) => (i = Len(calls) /\ ret = Mapped(calls[i].raw))
        /\ \A i, j \in 1..Len(calls) : calls[i].func = calls[j].func => i = j

-----------------------------------------------------------------------------
(* The audio properties derived from the codec's audio-info structure. *)

\* hasattr(self.mgfile.info, a) and self.mgfile.info.a
HasAttr(i, a) == a \in DOMAIN i
GetAttr(i, a) == IF a \in DOMAIN i THEN i[a] ELSE Exc("AttributeError")

\* a member of mutagen.mp3.BitrateMode
BitrateMode(m) == [t |-> "enum", v |-> m]

length(i) == GetAttr(i, "length")

samplerate(i, ty) ==
    IF HasAttr(i, "sample_rate") THEN i["sample_rate"]
    ELSE IF ty = "opus" THEN IntV(48000)
    ELSE IntV(0)

bitdepth(i) == IF HasAttr(i, "bits_per_sample") THEN i["bits_per_sample"] ELSE IntV(0)

channels(i) == IF HasAttr(i, "channels") THEN i["channels"] ELSE IntV(0)

\* the estimate without the test for a zero length
bitrate_unguarded(i, size) ==
    IF HasAttr(i, "bitrate") /\ Truthy(i["bitrate"]) THEN i["bitrate"]
    ELSE LET l == length(i)
         IN IF IsExc(l) THEN l
            ELSE IF l.n = 0 THEN Exc("ZeroDivisionError")
            ELSE IntV((size * 8) \div l.n)

bitrate(i, size) ==
    IF HasAttr(i, "bitrate") /\ Truthy(i["bitrate"]) THEN i["bitrate"]
    ELSE LET l == length(i)
         IN IF IsExc(l) THEN l
            ELSE IF ~Truthy(l) THEN IntV(0)
            ELSE IntV((size * 8) \div l.n)

bitrate_mode(i) ==
    IF HasAttr(i, "bitrate_mode")
    THEN IF i["bitrate_mode"] = BitrateMode("CBR") THEN StrV(<<"C", "B", "R">>)
         ELSE IF i["bitrate_mode"] = BitrateMode("VBR") THEN StrV(<<"V", "B", "R">>)
         ELSE IF i["bitrate_mode"] = BitrateMode("ABR") THEN StrV(<<"A", "B", "R">>)
         ELSE StrV(<<>>)
    ELSE StrV(<<>>)

encoder_info(i) == IF HasAttr(i, "encoder_info") THEN i["encoder_info"] ELSE StrV(<<>>)

encoder_settings(i) == IF HasAttr(i, "encoder_settings") THEN i["encoder_settings"] ELSE StrV(<<>>)

format(ty) == IF ty \in DOMAIN TYPES THEN StrV(<<TYPES[ty]>>) ELSE Exc("KeyError")

\* the properties readable_fields lists besides the fields
Properties == {"length", "samplerate", "bitdepth", "bitrate", "bitrate_mode", "channels", "encoder_info", "encoder_settings", "format"}

\* getattr(mediafile, name) for a property
property_get(name, i, ty, size) ==
    CASE name = "length" -> length(i)
      [] name = "samplerate" -> samplerate(i, ty)
      [] name = "bitdepth" -> bitdepth(i)
      [] name = "bitrate" -> bitrate(i, size)
      [] name = "bitrate_mode" -> bitrate_mode(i)
      [] name = "channels" -> channels(i)
      [] name = "encoder_info" -> encoder_info(i)
      [] name = "encoder_settings" -> encoder_settings(i)
      [] name = "format" -> format(ty)

PropertyGet(name) ==
    /\ phase = "Open"
    /\ name \in Properties
    /\ ret' = property_get(name, info, type, disk.size)
    /\ last' = [op |-> "property", field |-> name, arg |-> None]
    /\ calls' = <<>>
    /\ UNCHANGED <<phase, mgclass, type, id3v23, hastags, tags, info, disk, clsdict, nops>>

\* The audio-info structures the codec hands out.  Every one carries a
\* length (0 when the codec cannot tell); each other attribute is carried
\* by the structures of some classes only.
AudioInfos ==
    { Dict(<< <<"length", IntV(0)>> >>),
      Dict(<< <<"length", IntV(2)>>, <<"channels", IntV(2)>> >>),
      Dict(<< <<"length", IntV(0)>>, <<"bitrate", IntV(0)>>, <<"bitrate_mode", BitrateMode("UNKNOWN")>> >>),
      Dict(<< <<"length", IntV(2)>>, <<"bitrate", IntV(0)>>, <<"sample_rate", IntV(44100)>>, <<"channels", IntV(2)>>,
              <<"bits_per_sample", IntV(16)>>, <<"codec", StrV(<<"a", "l", "a", "c">>)>> >>),
      Dict(<< <<"length", IntV(2)>>, <<"bitrate", IntV(128)>>, <<"sample_rate", IntV(44100)>>, <<"channels", IntV(1)>>,
              <<"bitrate_mode", BitrateMode("VBR")>>, <<"encoder_info", StrV(<<"L">>)>>, <<"encoder_settings", StrV(<<"V">>)>> >>) }

\* os.path.getsize of the files
FileSizes == {0, 1000}

\* a facade just constructed over a file of any class and audio info
InitProperties ==
    /\ phase = "Open"
    /\ mgclass \in OpenClasses
    /\ info \in AudioInfos
    /\ type = TypeOfClass(mgclass, IsAlac(info))
    /\ id3v23 = FALSE
    /\ hastags = TRUE
    /\ tags = EmptyTags
    /\ \E size \in FileSizes : disk = File(mgclass, TRUE, tags, info, size)
    /\ clsdict = ClassBody
    /\ last = NoOp
    /\ ret = None
    /\ calls = <<>>
    /\ nops = 0

NextProperties == \E name \in Properties : PropertyGet(name)

SpecProperties == InitProperties /\ [][NextProperties]_vars

\* the attribute of the audio-info structure a property reads
Underlying ==
    [samplerate |-> "sample_rate", bitdepth |-> "bits_per_sample", channels |-> "channels", bitrate_mode |-> "bitrate_mode",
     encoder_info |-> "encoder_info", encoder_settings |-> "encoder_settings"]
NumericProperties == {"length", "samplerate", "bitdepth", "channels", "bitrate"}
PropertyZero(name) == IF name \in NumericProperties THEN IntV(0) ELSE StrV(<<>>)
\* the property of the last read lacks its attribute
LacksAttribute == last.field \in DOMAIN Underlying /\ ~HasAttr(info, Underlying[last.field])

-----------------------------------------------------------------------------
(* Registering fields. *)

\* a registration without the test for an existing name
AddField_overwrite(name, id) ==
    /\ IF ~IsMediaField(Object(id))
       THEN ret' = Exc("ValueError") /\ UNCHANGED clsdict
       ELSE ret' = None /\ clsdict' = SetKey(clsdict, name, id)
    /\ last' = [op |-> "add_field", field |-> name, arg |-> StrV(<<id>>)]
    /\ calls' = <<>>
    /\ UNCHANGED <<phase, mgclass, type, id3v23, hastags, tags, info, disk, nops>>

\* MediaFile.add_field(name, descriptor), descriptor being the object id
AddField(name, id) ==
    /\ IF ~IsMediaField(Object(id))
       THEN ret' = Exc("ValueError") /\ UNCHANGED clsdict
       ELSE IF name \in DOMAIN clsdict
       THEN ret' = Exc("ValueError") /\ UNCHANGED clsdict
       ELSE ret' = None /\ clsdict' = SetKey(clsdict, name, id)
    /\ last' = [op |-> "add_field", field |-> name, arg |-> StrV(<<id>>)]
    /\ calls' = <<>>
    /\ UNCHANGED <<phase, mgclass, type, id3v23, hastags, tags, info, disk, nops>>

\* the names registrations are tried under: a field, a method, a property
\* and three new names
AddNames == {"title", "save", "length", "custom", "customlist", "mood"}
\* the objects handed in as descriptor: two fields and a plain object
AddObjects == {"custom", "customlist", "object"}

InitRegister ==
    /\ phase = "Closed"
    /\ mgclass = NoFacade.mgclass
    /\ type = NoFacade.type
    /\ id3v23 = NoFacade.id3v23
    /\ hastags = NoFacade.hastags
    /\ tags = NoFacade.tags
    /\ info = NoFacade.info
    /\ disk = File("none", FALSE, EmptyTags, NoInfo, 0)
    /\ clsdict = ClassBody
    /\ last = NoOp
    /\ ret = None
    /\ calls = <<>>
    /\ nops = 0

NextRegister == \E name \in AddNames : \E id \in AddObjects : AddField(name, id)

SpecRegister == InitRegister /\ [][NextRegister]_vars

\* C10: add_field raises ValueError when the descriptor is not a
\* MediaField or the name already exists on the class, and then changes no
\* binding; otherwise it binds the name, which adds exactly that name to
\* fields() and changes no other binding.
C10_AddFieldChecked ==
    [][last'.op = "add_field" =>
        LET name == last'.field
            descriptor == Object(last'.arg.s[1])
        IN IF descriptor.kind \notin {"MediaField", "ListMediaField"} \/ name \in DOMAIN clsdict
           THEN ret' = Exc("ValueError") /\ clsdict' = clsdict
           ELSE /\ ret' = None
                /\ fields(clsdict') = fields(clsdict) \cup {name}
                /\ DOMAIN clsdict' = DOMAIN clsdict \cup {name}
                /\ \A n \in DOMAIN clsdict : clsdict'[n] = clsdict[n]
                /\ Descriptor(clsdict', name) = descriptor]_vars

\* a name registered once was refused the second time
C10_Witness ==
    /\ last.op = "add_field" /\ last.field = "custom" /\ last.arg = StrV(<<"customlist">>)
    /\ ret = Exc("ValueError")
    /\ "custom" \in fields(clsdict) /\ clsdict["custom"] = "custom"

-----------------------------------------------------------------------------
(* The order fields are written in, update and as_dict. *)

\* the characters of an attribute name
Spell(name) ==
    CASE name = "title" -> <<"t", "i", "t", "l", "e">>
      [] name = "label" -> <<"l", "a", "b", "e", "l">>
      [] name = "bpm" -> <<"b", "p", "m">>
      [] name = "comp" -> <<"c", "o", "m", "p">>
      [] name = "track" -> <<"t", "r", "a", "c", "k">>
      [] name = "tracktotal" -> <<"t", "r", "a", "c", "k", "t", "o", "t", "a", "l">>
      [] name = "genres" -> <<"g", "e", "n", "r", "e", "s">>
      [] name = "genre" -> <<"g", "e", "n", "r", "e">>
      [] name = "date" -> <<"d", "a", "t", "e">>
      [] name = "year" -> <<"y", "e", "a", "r">>
      [] name = "month" -> <<"m", "o", "n", "t", "h">>
      [] name = "day" -> <<"d", "a", "y">>
      [] name = "original_date" -> <<"o", "r", "i", "g", "i", "n", "a", "l", "_", "d", "a", "t", "e">>
      [] name = "original_year" -> <<"o", "r", "i", "g", "i", "n", "a", "l", "_", "y", "e", "a", "r">>
      [] name = "original_month" -> <<"o", "r", "i", "g", "i", "n", "a", "l", "_", "m", "o", "n", "t", "h">>
      [] name = "original_day" -> <<"o", "r", "i", "g", "i", "n", "a", "l", "_", "d", "a", "y">>
      [] name = "save" -> <<"s", "a", "v", "e">>
      [] name = "length" -> <<"l", "e", "n", "g", "t", "h">>
      [] name = "custom" -> <<"c", "u", "s", "t", "o", "m">>
      [] name = "customlist" -> <<"c", "u", "s", "t", "o", "m", "l", "i", "s", "t">>
      [] name = "mood" -> <<"m", "o", "o", "d">>
      [] OTHER -> <<>>

\* the characters names are made of, in the order of their code points
Alphabet == <<"0", "1", "2", "3", "4", "5", "6", "7", "8", "9", "_", "a", "b", "c", "d", "e", "f", "g", "h", "i", "j", "k", "l", "m", "n", "o", "p", "q", "r", "s", "t", "u", "v", "w", "x", "y", "z">>
Ord(c) == CHOOSE i \in 1..Len(Alphabet) : Alphabet[i] = c

\* a < b for two texts, as Python compares str
RECURSIVE TextLess(_, _)
TextLess(a, b) ==
    IF b = <<>> THEN FALSE
    ELSE IF a = <<>> THEN TRUE
    ELSE IF Head(a) = Head(b) THEN TextLess(Tail(a), Tail(b))
    ELSE Ord(Head(a)) < Ord(Head(b))

\* re.sub(pat, rep, s) for a literal pattern
RECURSIVE ReSub(_, _, _)
ReSub(pat, rep, s) ==
    IF Len(s) < Len(pat) THEN s
    ELSE IF SubSeq(s, 1, Len(pat)) = pat THEN rep \o ReSub(pat, rep, SubSeq(s, Len(pat) + 1, Len(s)))
    ELSE <<Head(s)>> \o ReSub(pat, rep, Tail(s))

\* the key sorted() is given without the renaming of date components
plain_sort_name(cd, name) == Spell(name)

\* MediaFile._field_sort_name
field_sort_name(cd, name) ==
    IF Object(cd[name]).kind = "DateItemField"
    THEN ReSub(<<"d", "a", "y">>, <<"d", "a", "t", "e", "2">>,
               ReSub(<<"m", "o", "n", "t", "h">>, <<"d", "a", "t", "e", "1">>,
                     ReSub(<<"y", "e", "a", "r">>, <<"d", "a", "t", "e", "0">>, Spell(name))))
    ELSE Spell(name)

\* sorted(names, key=...): key maps each name to its sort key; a name goes
\* after the names of the rest whose key is smaller
RECURSIVE sorted_by_key(_, _)
sorted_by_key(key, names) ==
    IF names = {} THEN <<>>
    ELSE LET name == CHOOSE n \in names : TRUE
             rest == sorted_by_key(key, names \ {name})
             k == Cardinality({i \in 1..Len(rest) : TextLess(key[rest[i]], key[name])})
         IN SubSeq(rest, 1, k) \o <<name>> \o SubSeq(rest, k + 1, Len(rest))

\* MediaFile.sorted_fields
sorted_fields_of(cd) == sorted_by_key([n \in fields(cd) |-> field_sort_name(cd, n)], fields(cd))
\* the order for the class body with the date fields, computed once
SortedDateClassBody == sorted_fields_of(DateClassBody)
sorted_fields(cd) == IF cd = DateClassBody THEN SortedDateClassBody ELSE sorted_fields_of(cd)

\* one descriptor call made by update: setattr or delattr of a field
FieldCall(op, name) == [func |-> op, via |-> name, raw |-> Returns]

\* what update does with one key: delattr for None, setattr otherwise
field_write(mg, cls, f, value) == IF value = None THEN Done(field_delete(mg, cls, f)) ELSE field_set(mg, cls, f, value)

\* the loop of MediaFile.update over the names still to come: the tag set
\* it leaves, the exception that ended it and the descriptor calls it made
RECURSIVE update_loop(_, _, _, _, _, _)
update_rest(r, cls, cd, names, dict, log) ==
    IF r.exc # None THEN [mg |-> r.mg, exc |-> r.exc, log |-> log]
    ELSE update_loop(r.mg, cls, cd, names, dict, log)
update_loop(mg, cls, cd, names, dict, log) ==
    IF names = <<>> THEN [mg |-> mg, exc |-> None, log |-> log]
    ELSE IF Head(names) \notin DOMAIN dict THEN update_loop(mg, cls, cd, Tail(names), dict, log)
    ELSE update_rest(field_write(mg, cls, Object(cd[Head(names)]), dict[Head(names)]), cls, cd, Tail(names), dict,
                     Append(log, FieldCall(IF dict[Head(names)] = None THEN "delattr" ELSE "setattr", Head(names))))

\* MediaFile.update
update(mg, cls, cd, dict) == update_loop(mg, cls, cd, sorted_fields(cd), dict, <<>>)

\* a Python dict
DictV(d) == [t |-> "dict", d |-> d]

\* the dict of the values read, or the exception a getter raised
dict_or_exc(d) == IF \E x \in DOMAIN d : IsExc(d[x]) THEN d[CHOOSE x \in DOMAIN d : IsExc(d[x])] ELSE DictV(d)

\* MediaFile.as_dict
as_dict(mg, cls, cd) == dict_or_exc([x \in fields(cd) |-> field_get(mg, cls, Object(cd[x]))])

\* mediafile.update(dict)
Update(dict) ==
    /\ phase = "Open" /\ nops < MaxOps
    /\ \E r \in {update(tags, mgclass, clsdict, dict)} :
          /\ tags' = r.mg
          /\ ret' = r.exc
          /\ calls' = r.log
    /\ last' = [op |-> "update", field |-> "", arg |-> DictV(dict)]
    /\ nops' = nops + 1
    /\ UNCHANGED <<phase, mgclass, type, id3v23, hastags, info, disk, clsdict>>

\* mediafile.as_dict()
AsDict ==
    /\ phase = "Open" /\ nops < MaxOps
    /\ ret' = as_dict(tags, mgclass, clsdict)
    /\ last' = [op |-> "as_dict", field |-> "", arg |-> None]
    /\ calls' = <<>>
    /\ nops' = nops + 1
    /\ UNCHANGED <<phase, mgclass, type, id3v23, hastags, tags, info, disk, clsdict>>

\* date_field._set_date_tuple(mediafile, year, month, day)
SetDateTuple(name, year, month, day) ==
    /\ phase = "Open" /\ nops < MaxOps
    /\ name \in fields(clsdict) /\ Descriptor(clsdict, name).kind = "DateField"
    /\ \E r \in {set_date_tuple(tags, mgclass, Descriptor(clsdict, name), year, month, day)} :
          /\ tags' = r.mg
          /\ ret' = r.exc
    /\ last' = [op |-> "set_date_tuple", field |-> name, arg |-> ListV(<<year, month, day>>)]
    /\ calls' = <<>>
    /\ nops' = nops + 1
    /\ UNCHANGED <<phase, mgclass, type, id3v23, hastags, info, disk, clsdict>>

\* the classes whose files the date operations are explored on, one or two
\* of each family
DateClasses == {"MP3", "MP4", "FLAC", "OggVorbis", "ASF"}

Y2020 == <<"2", "0", "2", "0">>
\* The date tags of the files the model opens, per codec class: no date, a
\* full date, a year alone, and dates as other software writes them (a time
\* after the date, slashes, a zero month, text that is no number, only the
\* legacy year, a legacy year that disagrees).
DateTags(cls) ==
    CASE cls \in MP3Formats ->
            { EmptyTags,
              Dict(<< <<"TDRC", Txt(Y2020 \o <<"-", "0", "5", "-", "0", "1">>)>>, <<"TDOR", Txt(<<"1", "9", "9", "9">>)>> >>),
              Dict(<< <<"TDRC", Txt(Y2020)>> >>),
              Dict(<< <<"TDRC", Txt(Y2020 \o <<"-", "0", "2", "-", "3", "0">>)>> >>) }
      [] cls \in MP4Formats ->
            { EmptyTags,
              Dict(<< <<"(c)day", Txt(Y2020 \o <<"-", "0", "5", "-", "0", "1", "T", "0", "7", ":", "0", "0", "Z">>)>>,
                      <<"----:com.apple.iTunes:ORIGINAL YEAR", One(BytesV(<<"1", "9", "9", "9">>))>> >>),
              Dict(<< <<"(c)day", Txt(Y2020 \o <<"-", "0", "5">>)>> >>) }
      [] cls \in ASFFormats ->
            { EmptyTags,
              Dict(<< <<"WM/Year", Txt(Y2020)>>, <<"WM/OriginalReleaseYear", Txt(<<"1", "9", "9", "9">>)>> >>),
              Dict(<< <<"WM/Year", Txt(Y2020 \o <<"/", "0", "5", "/", "0", "1">>)>> >>) }
      [] OTHER ->
            { EmptyTags,
              Dict(<< <<"DATE", Txt(Y2020 \o <<"-", "0", "5", "-", "0", "1">>)>>, <<"YEAR", Txt(Y2020)>>, <<"ORIGINALDATE", Txt(<<"1", "9", "9", "9">>)>> >>),
              Dict(<< <<"YEAR", Txt(<<"1", "9", "9", "9">>)>> >>),
              Dict(<< <<"DATE", Txt(Y2020 \o <<"-", "0", "0", "-", "0", "7">>)>>, <<"YEAR", Txt(<<"1", "9", "9", "9">>)>> >>),
              Dict(<< <<"DATE", Txt(<<"x">>)>> >>),
              Dict(<< <<"DATE", Txt(Y2020 \o <<" ", "0", "7", ":", "0", "0">>)>> >>) }

\* the values the model assigns to a date field and to a date component
DateValues == {None, DateV(2021, 12, 31), DateV(7, 1, 1)}
ItemValues == {None, IntV(3), IntV(2021)}
\* the arguments the model calls _set_date_tuple with
TupleYears == {None, IntV(7), IntV(2021)}
TupleMonths == {None, IntV(3), IntV(12)}
TupleDays == {None, IntV(9), IntV(31)}

\* the dictionaries the model calls update with: the three date components,
\* a field with keys that name no field, a deletion with a write, writes of
\* which the first or the second raises, and a date with a deleted component
UpdateDicts ==
    { Dict(<< <<"day", IntV(9)>>, <<"month", IntV(3)>>, <<"year", IntV(2021)>> >>),
      Dict(<< <<"title", StrV(<<"d">>)>>, <<"save", IntV(1)>>, <<"mood", StrV(<<"d">>)>> >>),
      Dict(<< <<"title", None>>, <<"year", IntV(7)>> >>),
      Dict(<< <<"bpm", StrV(<<"x">>)>>, <<"title", StrV(<<"d">>)>> >>),
      Dict(<< <<"track", StrV(<<"x">>)>>, <<"bpm", IntV(12)>> >>),
      Dict(<< <<"date", DateV(2021, 12, 31)>>, <<"original_day", None>>, <<"day", None>> >>),
      Dict(<< <<"original_month", IntV(3)>>, <<"original_year", IntV(2021)>>, <<"original_day", IntV(9)>> >>) }

DateFieldNames == {"date", "original_date"}
DateItemNames == {"year", "month", "day", "original_year", "original_month", "original_day"}

\* the number of operations explored on a file with dates
MaxDateOps == 1

\* a facade just constructed over one of the files, its class carrying the
\* date fields, with MaxDateOps operations to go
InitDates ==
    /\ phase = "Open"
    /\ mgclass \in DateClasses
    /\ type = TypeOfClass(mgclass, FALSE)
    /\ id3v23 = FALSE
    /\ hastags = TRUE
    /\ tags \in DateTags(mgclass)
    /\ info = NoInfo
    /\ disk = File(mgclass, TRUE, tags, info, 0)
    /\ clsdict = DateClassBody
    /\ last = NoOp
    /\ ret = None
    /\ calls = <<>>
    /\ nops = MaxOps - MaxDateOps

NextDates ==
    \/ \E name \in DateFieldNames \cup DateItemNames : FieldGet(name)
    \/ \E name \in DateFieldNames \cup DateItemNames :
          \E value \in (IF name \in DateFieldNames THEN DateValues ELSE ItemValues) : FieldSet(name, value)
    \/ \E name \in DateFieldNames \cup DateItemNames : FieldDelete(name)
    \/ \E name \in DateFieldNames : \E y \in TupleYears, m \in TupleMonths, d \in TupleDays : SetDateTuple(name, y, m, d)
    \/ \E dict \in UpdateDicts : Update(dict)
    \/ AsDict

SpecDates == InitDates /\ [][NextDates]_vars

-----------------------------------------------------------------------------
(* Properties of update and as_dict. *)

\* the name the class binds to the date field that component `name` is of
DateFieldOf(cd, name) == CHOOSE b \in DOMAIN cd : Object(cd[b]) = Object(cd[name]).date_field

\* the place of a field in the writing order: its name, and for a date
\* component the name of its date field followed by 0, 1 or 2
WritePlace(cd, name) ==
    IF Object(cd[name]).kind = "DateItemField"
    THEN Spell(DateFieldOf(cd, name)) \o <<Alphabet[Object(cd[name]).item_pos + 1]>>
    ELSE Spell(name)

\* the tag set after the descriptor calls of log, made one after the other
RECURSIVE AfterCalls(_, _, _, _, _)
AfterCalls(mg, cls, cd, dict, log) ==
    IF log = <<>> THEN mg
    ELSE LET f == Object(cd[Head(log).via])
         IN AfterCalls(IF Head(log).func = "delattr" THEN field_delete(mg, cls, f) ELSE field_set(mg, cls, f, dict[Head(log).via]).mg,
                       cls, cd, dict, Tail(log))

\* C11: update(d) makes one descriptor call per field named in d, a delete
\* where d holds none and a set otherwise, in lexicographic order of the
\* names with the components of a date in the order year, month, day next
\* to their date field; keys of d that name no field cause no call; a call
\* that raises ends the update; the tag set is the one these calls leave.
\* as_dict() returns one entry per name of fields(), the value get() yields.
C11_UpdateInOrder ==
    [][ /\ last'.op = "update" =>
            LET dict == last'.arg.d
                named == (DOMAIN dict) \cap fields(clsdict)
                done == {calls'[i].via : i \in 1..Len(calls')}
            IN /\ done \subseteq named
               /\ \A i \in 1..Len(calls') : calls'[i].func = IF dict[calls'[i].via] = None THEN "delattr" ELSE "setattr"
               /\ \A i, j \in 1..Len(calls') : i < j => TextLess(WritePlace(clsdict, calls'[i].via), WritePlace(clsdict, calls'[j].via))
               /\ \A n \in named \ done : \A m \in done : TextLess(WritePlace(clsdict, m), WritePlace(clsdict, n))
               /\ ret' = None => done = named
               /\ tags' = AfterCalls(tags, mgclass, clsdict, dict, calls')
        /\ last'.op = "as_dict" /\ ret'.t = "dict" =>
            /\ DOMAIN ret'.d = fields(clsdict)
            /\ \A n \in fields(clsdict) : ret'.d[n] = field_get(tags, mgclass, Descriptor(clsdict, n))
            /\ tags' = tags ]_vars

\* an update of day, month and year on a file without a date has written
\* year, month, day in this order and left the full date
C11_Witness ==
    /\ last.op = "update" /\ ret = None
    /\ calls = <<FieldCall("setattr", "year"), FieldCall("setattr", "month"), FieldCall("setattr", "day")>>
    /\ field_get(tags, mgclass, Descriptor(clsdict, "date")) = DateV(2021, 3, 9)

-----------------------------------------------------------------------------
(* Properties of the date fields. *)

\* the date field the last operation was about: the field itself, or the
\* date field of the component
LastDateField ==
    IF LastField.kind = "DateItemField" THEN LastField.date_field ELSE LastField

\* the year, month and day the components of date field f read
ReadTuple(mg, cls, f) == [i \in 1..3 |-> DateItemField_get(mg, cls, DateItemField(f, i - 1))]

\* the last operation wrote a date with a year and did not raise: the year,
\* month and day it was given
WroteDate ==
    /\ ret = None
    /\ \/ last.op = "set_date_tuple" /\ last.arg.l[1] # None
       \/ last.op = "set" /\ last.field \in DateFieldNames /\ last.arg # None
GivenTuple ==
    IF last.op = "set_date_tuple" THEN last.arg.l
    ELSE <<IntV(last.arg.y), IntV(last.arg.m), IntV(last.arg.d)>>

Retained(t) ==
    <<t[1], IF Truthy(t[2]) THEN t[2] ELSE None, IF Truthy(t[2]) /\ Truthy(t[3]) THEN t[3] ELSE None>>

PrimaryStyles(f, cls) == {f.styles[i] : i \in Applicable(f, cls)}
LegacyStyles(f, cls) ==
    IF HasYearField(f) THEN {f.year_field.styles[i] : i \in Applicable(f.year_field, cls)} ELSE {}

\* the year a slot holds: the number before the first '-' or '/' of its text
SlotYear(mg, st) ==
    LET v == safe_cast("str", style_get(mg, st))
    IN IF v.t = "str" THEN PyInt(StrV(Head(SplitDate(v.s, <<>>)))) ELSE PyInt(v)

\* the legacy year slot of f is present exactly when the primary slot is,
\* and holds the same year
InSync(mg, f, cls) ==
    \A st \in PrimaryStyles(f, cls) : \A ys \in LegacyStyles(f, cls) :
        /\ HasKey(mg, st.key) <=> HasKey(mg, ys.key)
        /\ HasKey(mg, st.key) => SlotYear(mg, st) = SlotYear(mg, ys)

\* YYYY, YYYY-MM or YYYY-MM-DD of the components t retains
DateText(t) ==
    JoinHyphen(<<FormatD(t[1].n, 4)>> \o (IF Retained(t)[2] = None THEN <<>> ELSE <<FormatD(t[2].n, 2)>>)
                                     \o (IF Retained(t)[3] = None THEN <<>> ELSE <<FormatD(t[3].n, 2)>>))

\* the last operation wrote or deleted the date or one of its components
DateOp ==
    /\ last.op \in {"set", "delete", "set_date_tuple"}
    /\ last.field \in DateFieldNames \cup DateItemNames
    /\ ret = None
\* the last operation wrote the date with year none, or deleted it
ClearedDate ==
    /\ ret = None /\ last.field \in DateFieldNames
    /\ \/ last.op = "set_date_tuple" /\ last.arg.l[1] = None
       \/ last.op = "set" /\ last.arg = None
       \/ last.op = "delete"

ItemStep ==
    /\ last'.op \in {"set", "delete"} /\ last'.field \in DateItemNames
    /\ nops' = nops + 1 /\ ret' = None
\* the position in the tuple of the component the step is about
ItemPos == Descriptor(clsdict, last'.field).item_pos + 1

\* C20 as stated: setting or deleting one date component changes only that
\* component: the other two read the same before and after.
C20_OtherComponentsKept ==
    [][ ItemStep =>
            \A j \in (1..3) \ {ItemPos} :
                ReadTuple(tags', mgclass, LastDateField')[j] = ReadTuple(tags, mgclass, LastDateField')[j] ]_vars

\* what a tuple reads as once written back: nothing without a year, else
\* the components it retains
WrittenBack(t) == IF t[1] = None THEN <<None, None, None>> ELSE Retained(t)

\* C20, amended: setting or deleting one date component replaces that
\* component in the tuple the date reads as and writes the tuple back: if
\* the new tuple has no year the date is deleted and all three components
\* read none; otherwise the year reads as in the new tuple, the month too
\* unless it is none or 0, and the day only if the month is retained. The
\* other two components are therefore unchanged except that a missing year
\* clears month and day and a missing month clears the day.
C20_TupleWrittenBack ==
    [][ ItemStep =>
            ReadTuple(tags', mgclass, LastDateField') =
                WrittenBack([ReadTuple(tags, mgclass, LastDateField') EXCEPT ![ItemPos] = last'.arg]) ]_vars

\* the day of a full date was replaced: year and month read as before
C20_Witness ==
    /\ last.op = "set" /\ last.field = "day" /\ last.arg = IntV(3) /\ ret = None
    /\ disk.tags # tags
    /\ ReadTuple(disk.tags, mgclass, date) = <<IntV(2020), IntV(5), IntV(1)>>
    /\ ReadTuple(tags, mgclass, date) = <<IntV(2020), IntV(5), IntV(3)>>

-----------------------------------------------------------------------------
(* Packing and unpacking ASF images, one call after the other. *)

\* the longest text and the longest image data the model packs
MaxText == 2
MaxData == 2
\* code units of texts: NUL, 'A', U+0100 (bytes 00 01) and U+0001 (01 00)
CodeUnits == {0, 65, 256, 1}
DataBytes == {0, 255}
SeqsUpTo(S, n) == UNION {[1..k -> S] : k \in 0..n}
\* image types: other, front, publisher_logo
TypeIndexes == {0, 3, 20}
\* the texts and the image data the model packs
Texts == SeqsUpTo(CodeUnits, MaxText)
Payloads == SeqsUpTo(DataBytes, MaxData)

\* _pack_asf_image(mime, data, type, description), for some arguments
PackAsfImage ==
    /\ phase = "Coding" /\ last.op = "init"
    /\ \E mime, description \in Texts : \E data \in Payloads : \E typ \in TypeIndexes :
        /\ ret' = BytesV(pack_asf_image(mime, data, typ, description))
        /\ last' = [op |-> "pack", field |-> "", arg |-> <<mime, data, typ, description>>]
    /\ UNCHANGED <<phase, mgclass, type, id3v23, hastags, tags, info, disk, clsdict, calls, nops>>

\* _unpack_asf_image(packed) of the bytes just packed
UnpackAsfImage ==
    /\ phase = "Coding" /\ last.op = "pack"
    /\ ret' = unpack_asf_image(ret.s)
    /\ last' = [last EXCEPT !.op = "unpack"]
    /\ UNCHANGED <<phase, mgclass, type, id3v23, hastags, tags, info, disk, clsdict, calls, nops>>

\* no facade: only the two coding functions are called
InitCoding ==
    /\ phase = "Coding"
    /\ mgclass = "none" /\ type = "none" /\ id3v23 = FALSE /\ hastags = FALSE
    /\ tags = EmptyTags /\ info = NoInfo
    /\ disk = File("none", FALSE, EmptyTags, NoInfo, 0)
    /\ clsdict = ClassBody
    /\ last = NoOp /\ ret = None /\ calls = <<>> /\ nops = 0

NextCoding ==
    \/ PackAsfImage
    \/ UnpackAsfImage

SpecCoding == InitCoding /\ [][NextCoding]_vars

\* a text without the character U+0000
NoNul(text) == \A i \in 1..Len(text) : text[i] # 0

\* C14 as stated: _unpack_asf_image(_pack_asf_image(mime, data, type,
\* description)) returns exactly mime, data, type and description.
C14_UnpackInvertsPack ==
    last.op = "unpack" => ret = <<last.arg[1], last.arg[2], last.arg[3], last.arg[4]>>

\* the packed bytes p of (mime, data, type, description) are laid out as:
\* type byte, length of data in four bytes low first, mime in UTF-16LE, two
\* zero bytes, description in UTF-16LE, two zero bytes, data
LaidOut(p, a) ==
    LET m == 2 * Len(a[1])
        d == 2 * Len(a[4])
    IN /\ Len(p) = 5 + m + 2 + d + 2 + Len(a[2])
       /\ p[1] = a[3]
       /\ p[2] + 256 * p[3] + 65536 * p[4] + 16777216 * p[5] = Len(a[2])
       /\ \A i \in 1..Len(a[1]) : p[5 + 2 * i - 1] + 256 * p[5 + 2 * i] = a[1][i]
       /\ SubSeq(p, 5 + m + 1, 5 + m + 2) = <<0, 0>>
       /\ \A i \in 1..Len(a[4]) : p[7 + m + 2 * i - 1] + 256 * p[7 + m + 2 * i] = a[4][i]
       /\ SubSeq(p, 7 + m + d + 1, 7 + m + d + 2) = <<0, 0>>
       /\ SubSeq(p, 9 + m + d + 1, Len(p)) = a[2]

\* C14, amended: the packed form is the type byte, the 4-byte little-endian
\* length, the mime type and the description in UTF-16LE each followed by
\* two zero bytes, and the payload; for a mime type and a description that
\* do not contain the character U+0000, _unpack_asf_image(_pack_asf_image(
\* mime, data, type, description)) returns exactly mime, data, type and
\* description.
C14_UnpackInvertsPackNoNul ==
    /\ last.op = "pack" => LaidOut(ret.s, last.arg)
    /\ (last.op = "unpack" /\ NoNul(last.arg[1]) /\ NoNul(last.arg[4])) =>
            ret = <<last.arg[1], last.arg[2], last.arg[3], last.arg[4]>>

\* a front cover with a mime type and a description whose code units have a
\* zero byte on either side came back as packed
C14_Witness ==
    /\ last.op = "unpack"
    /\ last.arg = << <<65, 256>>, <<255, 0>>, 3, <<1, 256>> >>
    /\ ret = last.arg

-----------------------------------------------------------------------------
(* The image list and the cover art on an open facade. *)

\* the images the model writes: a PNG without description or type, a JPEG
\* front cover, a PNG back cover, a PNG picture of the media, and data that
\* is no image file
ImgPlain == Image(BytesV(<<137, 1>>), None, None)
ImgFront == Image(BytesV(<<255, 2>>), StrV(<<65>>), front)
ImgBack == Image(BytesV(<<137, 3>>), StrV(<<66>>), ImageType(4))
ImgMedia == Image(BytesV(<<137, 4>>), StrV(<<67>>), ImageType(6))
ImgRaw == Image(BytesV(<<7>>), None, None)

\* the values the model assigns to images and to art
ImageLists ==
    {None, ListV(<<>>), ListV(<<ImgPlain>>), ListV(<<ImgMedia, ImgFront, ImgBack>>), ListV(<<ImgBack, ImgMedia>>),
     ListV(<<ImgFront, ImgRaw>>)}
ArtValues == {None, BytesV(<<>>), BytesV(<<137, 1>>), BytesV(<<7>>)}

ImageFileClasses == {"MP3", "MP4", "ASF", "OggVorbis", "FLAC", "MonkeysAudio"}

\* the tag set a file of class cls has once the images of list were written
WithImages(cls, list) == ListMediaField_set(EmptyTags, cls, images, list).mg

\* The image tags of the files the model opens, per codec class: no image,
\* one image, three images of which the second is the front cover, two
\* images without a front cover; for the Vorbis comments also the legacy
\* COVERART alone and beside a picture block.
ImageTags(cls) ==
    {WithImages(cls, l) : l \in {ListV(<<>>), ListV(<<ImgPlain>>), ListV(<<ImgMedia, ImgFront, ImgBack>>), ListV(<<ImgBack, ImgMedia>>)}}
    \cup (IF cls = "OggVorbis"
          THEN { Dict(<< <<"coverart", ListV(<<B64(<<137, 9>>)>>)>>, <<"coverartmime", Txt(PNG)>> >>),
                 SetKey(SetKey(WithImages(cls, ListV(<<ImgFront>>)), "coverart", ListV(<<B64(<<137, 9>>)>>)), "coverartmime", Txt(PNG)) }
          ELSE {EmptyTags})

\* a facade just constructed over one of the files, its class carrying art
\* and images
InitImages ==
    /\ phase = "Open"
    /\ mgclass \in ImageFileClasses
    /\ type = TypeOfClass(mgclass, FALSE)
    /\ id3v23 = FALSE
    /\ hastags = TRUE
    /\ tags \in ImageTags(mgclass)
    /\ info = NoInfo
    /\ disk = File(mgclass, TRUE, tags, info, 0)
    /\ clsdict = ImageClassBody
    /\ last = NoOp
    /\ ret = None
    /\ calls = <<>>
    /\ nops = 0

NextImages ==
    \/ \E name \in {"art", "images"} : FieldGet(name)
    \/ \E name \in {"art", "images"} : \E value \in (IF name = "images" THEN ImageLists ELSE ArtValues) : FieldSet(name, value)
    \/ \E name \in {"art", "images"} : FieldDelete(name)

SpecImages == InitImages /\ [][NextImages]_vars

-----------------------------------------------------------------------------
(* Properties of the cover art and the image list. *)

\* the images the file holds, as the image list reads them
Candidates == LET l == ListMediaField_get(tags, mgclass, images) IN IF Truthy(l) THEN l.l ELSE <<>>
FrontCovers == {i \in 1..Len(Candidates) : Candidates[i].type = front}

\* C13: get() of the cover art returns none when the file has no image, the
\* data of the only image when there is one, otherwise the data of the
\* first image typed as front cover, and the data of the first image of
\* the list when none is typed front (of media, front, back: the front).
C13_CoverIsFront ==
    (last.op = "get" /\ last.field = "art") =>
        IF Candidates = <<>> THEN ret = None
        ELSE IF Len(Candidates) = 1 THEN ret = Candidates[1].data
        ELSE IF FrontCovers # {} THEN \E i \in FrontCovers : ret = Candidates[i].data /\ \A j \in FrontCovers : i <= j
        ELSE ret = Candidates[1].data

\* the art of a file with a media picture, a front cover and a back cover,
\* in this order, read as the front cover
C13_Witness ==
    /\ last.op = "get" /\ last.field = "art"
    /\ Len(Candidates) = 3 /\ Candidates[1].type = ImageType(6) /\ Candidates[2].type = front /\ Candidates[3].type = ImageType(4)
    /\ ret = BytesV(<<255, 2>>)

\* C16: after the image list is deleted get() yields no image, on a file of
\* any family and whatever images, modern or legacy, it held.
C16_DeleteLeavesNoImage ==
    (last.op = "delete" /\ last.field = "images") => ~Truthy(ListMediaField_get(tags, mgclass, images))

-----------------------------------------------------------------------------
(* The fixed-point gains on an open facade. *)

GainNames == {"r128_track_gain", "r128_album_gain"}
GainClasses == {"MP3", "MP4", "FLAC", "ASF"}

\* the number of fraction bits a float of the model has beyond those of the
\* field: a value times 2^8 then has quarters
ExtraBits == 2
\* the numerators of the floats the model assigns: n / 2^(8 + ExtraBits),
\* whose stored numbers are n / 4 rounded: ties on either side of zero,
\* values just off a tie, and whole gains
Numerators == {0 - 4096, 0 - 7, 0 - 6, 0 - 5, 0 - 3, 0 - 2, 0 - 1, 0, 1, 2, 3, 5, 6, 10, 1027, 3072}
GainValues == {FloatV(n, 8 + ExtraBits) : n \in Numerators} \cup {IntV(0 - 2), None, StrV(<<"1">>)}

\* The gain tags of the files the model opens: none, a stored number, a
\* negative one, and a frame as other software spells its description.
GainTags(cls) ==
    CASE cls \in MP3Formats ->
            { EmptyTags, Dict(<< <<"TXXX:R128_TRACK_GAIN", Txt(<<"5", "1", "2">>)>>, <<"TXXX:R128_ALBUM_GAIN", Txt(<<"-", "3">>)>> >>),
              Dict(<< <<"TXXX:r128_track_gain", Txt(<<"-", "2", "5", "6">>)>> >>) }
      [] cls \in MP4Formats ->
            { EmptyTags, Dict(<< <<"----:com.apple.iTunes:R128_TRACK_GAIN", One(BytesV(<<"5", "1", "2">>))>> >>),
              Dict(<< <<"----:com.apple.iTunes:R128_ALBUM_GAIN", One(BytesV(<<"-", "3">>))>> >>) }
      [] cls \in ASFFormats ->
            { EmptyTags, Dict(<< <<"R128_TRACK_GAIN", Txt(<<"5", "1", "2">>)>>, <<"R128_ALBUM_GAIN", Txt(<<"-", "3">>)>> >>) }
      [] OTHER ->
            { EmptyTags, Dict(<< <<"R128_TRACK_GAIN", Txt(<<"5", "1", "2">>)>>, <<"R128_ALBUM_GAIN", Txt(<<"-", "3">>)>> >>) }

\* a facade just constructed over one of the files, its class carrying the
\* gains
InitGains ==
    /\ phase = "Open"
    /\ mgclass \in GainClasses
    /\ type = TypeOfClass(mgclass, FALSE)
    /\ id3v23 = FALSE
    /\ hastags = TRUE
    /\ tags \in GainTags(mgclass)
    /\ info = NoInfo
    /\ disk = File(mgclass, TRUE, tags, info, 0)
    /\ clsdict = GainClassBody
    /\ last = NoOp
    /\ ret = None
    /\ calls = <<>>
    /\ nops = 0

NextGains ==
    \/ \E name \in GainNames : FieldGet(name)
    \/ \E name \in GainNames : \E value \in GainValues : FieldSet(name, value)
    \/ \E name \in GainNames : FieldDelete(name)

SpecGains == InitGains /\ [][NextGains]_vars

\* the writable styles of f that apply to class cls
WritableStyles(f, cls) == {f.styles[i] : i \in {j \in Applicable(f, cls) : ~f.styles[j].read_only}}

\* q is x * 2^b rounded, for the float x = n / 2^k: no integer is nearer,
\* and of two equally near ones q is the even one
IsRounded(q, n, k, b) ==
    LET twice == 2 * (q * Pow2(k) - n * Pow2(b))
    IN /\ twice <= Pow2(k) /\ 0 - twice <= Pow2(k)
       /\ (twice = Pow2(k) \/ 0 - twice = Pow2(k)) => q % 2 = 0

\* C15: after set(x) on a fixed-point field with b fraction bits, every
\* writable applicable style holds round(x * 2^b), and get() returns that
\* number divided by 2^b, which differs from x by less than 1 / 2^b, for
\* negative x as well.
C15_StoresRounded ==
    (last.op = "set" /\ last.field \in GainNames /\ last.arg.t = "float" /\ ret = None) =>
        LET b == LastField.fraction_bits
            x == last.arg
            got == field_get(tags, mgclass, LastField)
        IN /\ got.t = "float" /\ got.k = b
           /\ IsRounded(got.n, x.n, x.k, b)
           /\ \A st \in WritableStyles(LastField, mgclass) : safe_cast("int", style_get(tags, st)) = IntV(got.n)
           /\ got.n * Pow2(x.k) - x.n * Pow2(b) < Pow2(x.k)
           /\ x.n * Pow2(b) - got.n * Pow2(x.k) < Pow2(x.k)

\* the gain -6/1024 was written: -1.5 is stored as -2, and get() returns
\* -2/256
C15_Witness ==
    /\ last.op = "set" /\ last.field = "r128_track_gain" /\ last.arg = FloatV(0 - 6, 10) /\ ret = None
    /\ mgclass = "MP4"
    /\ tags["----:com.apple.iTunes:R128_TRACK_GAIN"] = One(BytesV(<<"-", "2">>))
    /\ field_get(tags, mgclass, r128_track_gain) = FloatV(0 - 2, 8)

-----------------------------------------------------------------------------
(* The ReplayGain fields, whose Sound Check style can fail after other      *)
(* styles have written.                                                     *)

ReplayGainClasses == {"MP3", "MP4", "FLAC", "ASF"}

\* the Sound Check text of a gain of 10 dB and a peak of a half
NormText == sc_encode(FloatV(10, 0), FloatV(1, 1))

\* The tags of the files the model opens: those of FileTags, and files
\* with ReplayGain tags: as text, as a Sound Check tag, and with a Sound
\* Check tag that is not in the format.
ReplayGainTags(cls) ==
    FileTags(cls) \cup
    CASE cls \in MP3Formats ->
            { Dict(<< <<"TXXX:replaygain_track_gain", Txt(<<"1", "0", ".", "0", "0", " ", "d", "B">>)>>, <<"TXXX:REPLAYGAIN_TRACK_PEAK", Txt(<<"0", ".", "5", "0", "0", "0", "0", "0">>)>> >>),
              Dict(<< <<"COMM:iTunNORM:eng", One(NormText)>> >>),
              Dict(<< <<"COMM:iTunNORM:eng", Txt(<<"x">>)>> >>) }
      [] cls \in MP4Formats ->
            { Dict(<< <<"----:com.apple.iTunes:replaygain_track_gain", One(BytesV(<<"1", "0", ".", "0", "0", " ", "d", "B">>))>> >>),
              Dict(<< <<"----:com.apple.iTunes:iTunNORM", One(BytesV(NormText.s))>> >>),
              Dict(<< <<"----:com.apple.iTunes:iTunNORM", One(BytesV(<<"x">>))>> >>) }
      [] cls \in ASFFormats ->
            { Dict(<< <<"replaygain_track_gain", Txt(<<"1", "0", ".", "0", "0", " ", "d", "B">>)>>, <<"replaygain_track_peak", Txt(<<"0", ".", "5", "0", "0", "0", "0", "0">>)>> >>) }
      [] OTHER ->
            { Dict(<< <<"REPLAYGAIN_TRACK_GAIN", Txt(<<"1", "0", ".", "0", "0", " ", "d", "B">>)>>, <<"REPLAYGAIN_TRACK_PEAK", Txt(<<"0", ".", "5", "0", "0", "0", "0", "0">>)>> >>) }

InitReplayGain ==
    /\ phase = "Open"
    /\ mgclass \in ReplayGainClasses
    /\ type = TypeOfClass(mgclass, FALSE)
    /\ id3v23 = FALSE
    /\ hastags = TRUE
    /\ tags \in ReplayGainTags(mgclass)
    /\ info = NoInfo
    /\ disk = File(mgclass, TRUE, tags, info, 0)
    /\ clsdict = ReplayGainClassBody
    /\ last = NoOp
    /\ ret = None
    /\ calls = <<>>
    /\ nops = 0

NextReplayGain ==
    \/ \E name \in fields(ReplayGainClassBody) : FieldGet(name)
    \/ \E name \in fields(ReplayGainClassBody) : \E value \in InputValues(Descriptor(ReplayGainClassBody, name)) : FieldSet(name, value)
    \/ \E name \in fields(ReplayGainClassBody) : FieldDelete(name)

SpecReplayGain == InitReplayGain /\ [][NextReplayGain]_vars

\* C17: a set(v) that fails because the coercion of v raises in some
\* applicable style leaves the tag set exactly as it was before the call.
C17_FailedSetWritesNothing ==
    [][(last'.op = "set" /\ ret' # None) => tags' = tags]_vars

\* the zero value of a declared type
Zero(out_type) ==
    CASE out_type = "int" -> IntV(0)
      [] out_type = "float" -> FloatV(0, 0)
      [] out_type = "bool" -> BoolV(FALSE)
      [] out_type = "str" -> StrV(<<>>)

\* does the tag set hold the slot of style st?
SlotPresent(mg, st) == IF st.cls \in MP3DescClasses THEN FoundFrames(mg, st.key) # <<>> ELSE HasKey(mg, st.key)
\* the value that st's slot holds for the style, of a packed pair the
\* style's element
StoredValue(mg, st) == IF st.cls = "MP4TupleStorageStyle" THEN TupleItems(fetch(mg, st))[st.index + 1] ELSE style_get(mg, st)

\* C18: setting a scalar field to none does not raise and deletes no slot:
\* every applicable writable style holds the zero value of the field's
\* declared type afterwards, as after setting that zero value; setting a
\* list field to none leaves no slot of an applicable writable style.
C18_NoneWritesZero ==
    [][(last'.op = "set" /\ last'.arg = None) =>
        LET f == Descriptor(clsdict, last'.field)
        IN /\ f.kind = "MediaField" =>
                /\ ret' = None
                /\ \A st \in WritableStyles(f, mgclass) :
                      SlotPresent(tags', st) /\ safe_cast(f.out_type, StoredValue(tags', st)) = Zero(f.out_type)
                /\ tags' = field_set(tags, mgclass, f, Zero(f.out_type)).mg
           /\ f.kind = "ListMediaField" => \A st \in WritableStyles(f, mgclass) : ~SlotPresent(tags', st)]_vars

\* the track gain of an MP4 file that held a Sound Check tag was set to
\* none: the text atom holds 0.00 dB and the Sound Check tag a gain of zero
C18_Witness ==
    /\ last.op = "set" /\ last.field = "rg_track_gain" /\ last.arg = None /\ ret = None
    /\ mgclass = "MP4"
    /\ HasKey(tags, "----:com.apple.iTunes:replaygain_track_gain") /\ HasKey(tags, "----:com.apple.iTunes:iTunNORM")
    /\ tags["----:com.apple.iTunes:replaygain_track_gain"] = One(BytesV(<<"0", ".", "0", "0", " ", "d", "B">>))
    /\ tags["----:com.apple.iTunes:iTunNORM"] = One(BytesV(sc_encode(IntV(0), FloatV(1, 1)).s))

-----------------------------------------------------------------------------
(* The packed pairs: track and tracktotal share the TRCK frame of an ID3    *)
(* tag as "a/b" and the trkn atom of an MP4 file as a pair of integers.     *)

PairNames == {"track", "tracktotal"}
PairClasses == {"MP3", "MP4"}

\* The tags of the files the model opens: no pair, a full pair, a first
\* element alone, a second element alone, and for the TRCK frame also an
\* empty text and a text of three parts, as other software may leave them.
PairTags(cls) ==
    IF cls \in MP3Formats
    THEN { EmptyTags,
           Dict(<< <<"TRCK", Txt(<<"5", "/", "3">>)>> >>),
           Dict(<< <<"TRCK", Txt(<<"2">>)>> >>),
           Dict(<< <<"TRCK", Txt(<<"/", "3">>)>> >>),
           Dict(<< <<"TRCK", Txt(<<>>)>> >>),
           Dict(<< <<"TRCK", Txt(<<"1", "/", "2", "/", "3">>)>> >>) }
    ELSE { EmptyTags,
           Dict(<< <<"trkn", One(ListV(<<IntV(5), IntV(3)>>))>> >>),
           Dict(<< <<"trkn", One(ListV(<<IntV(2), IntV(0)>>))>> >>),
           Dict(<< <<"trkn", One(ListV(<<IntV(0), IntV(3)>>))>> >>) }

\* a facade just constructed over one of the files
InitPairs ==
    /\ phase = "Open"
    /\ mgclass \in PairClasses
    /\ type = TypeOfClass(mgclass, FALSE)
    /\ id3v23 = FALSE
    /\ hastags = TRUE
    /\ tags \in PairTags(mgclass)
    /\ info = NoInfo
    /\ disk = File(mgclass, TRUE, tags, info, 0)
    /\ clsdict = ClassBody
    /\ last = NoOp
    /\ ret = None
    /\ calls = <<>>
    /\ nops = 0

NextPairs ==
    \/ \E name \in PairNames : FieldGet(name)
    \/ \E name \in PairNames : \E value \in InputValues(Descriptor(ClassBody, name)) : FieldSet(name, value)
    \/ \E name \in PairNames : FieldDelete(name)

SpecPairs == InitPairs /\ [][NextPairs]_vars

\* the element of the pair that a field stands for: pack_pos or index of
\* its first style
PairPos(name) == Descriptor(ClassBody, name).styles[1].index

\* the text of the TRCK frame
SlotText(mg) == mg["TRCK"].l[1].s
\* the elements a TRCK frame holds: none when the frame is absent or empty
SlashParts(mg) == IF ~HasKey(mg, "TRCK") \/ SlotText(mg) = <<>> THEN <<>> ELSE SplitSlash(SlotText(mg), <<>>)
\* the first element, the empty string when it is absent
FirstOrEmpty(parts) == IF parts = <<>> THEN <<>> ELSE parts[1]
\* the text a field assignment writes for the value given: none is 0
WrittenText(arg) == PyStr(IF arg = None THEN IntV(0) ELSE arg)

\* C21: in a slash-packed pair, a set of one element writes it and leaves
\* the other element as stored, with an absent first element written as the
\* empty string and an absent second element left out; a delete of the
\* second element leaves the slot holding the first element alone; a delete
\* of the first element removes the slot.
C21_PairKept ==
    [][(mgclass = "MP3" /\ last'.field \in PairNames /\ last'.op \in {"set", "delete"}) =>
        LET old == SlashParts(tags)
            p == PairPos(last'.field)
        IN /\ (last'.op = "set" /\ p = 0) =>
                /\ ret' = None /\ HasKey(tags', "TRCK")
                /\ SplitSlash(SlotText(tags'), <<>>) = <<WrittenText(last'.arg)>> \o (IF Len(old) >= 2 THEN Tail(old) ELSE <<>>)
           /\ (last'.op = "set" /\ p = 1) =>
                /\ ret' = None /\ HasKey(tags', "TRCK")
                /\ SplitSlash(SlotText(tags'), <<>>) = <<FirstOrEmpty(old), WrittenText(last'.arg)>> \o SubSeq(old, 3, Len(old))
           /\ (last'.op = "delete" /\ p = 1) =>
                HasKey(tags', "TRCK") /\ SplitSlash(SlotText(tags'), <<>>) = <<FirstOrEmpty(old)>>
           /\ (last'.op = "delete" /\ p = 0) => ~HasKey(tags', "TRCK")]_vars

\* the pair of the trkn atom, a pair of zeros when the atom is absent
TupleSlot(mg) == IF HasKey(mg, "trkn") THEN mg["trkn"].l[1].l ELSE <<IntV(0), IntV(0)>>

\* C22: in a tuple-packed pair, get of an element is none exactly when the
\* slot is absent or the stored element is 0, and the stored element
\* otherwise; a set that does not raise leaves exactly two integers in the
\* slot, the element written and the other one as it was, and a set that
\* raises writes nothing; deleting element 1 stores 0 in it and keeps
\* element 0; deleting element 0 removes the slot.
C22_TupleKept ==
    [][(mgclass = "MP4" /\ last'.field \in PairNames) =>
        LET old == TupleSlot(tags)
            new == TupleSlot(tags')
            p == PairPos(last'.field)
        IN /\ last'.op = "get" =>
                /\ ret' = None <=> (~HasKey(tags, "trkn") \/ old[p + 1] = IntV(0))
                /\ ret' # None => ret' = old[p + 1]
           /\ (last'.op = "set" /\ ret' = None) =>
                /\ HasKey(tags', "trkn") /\ Len(new) = 2 /\ \A i \in 1..2 : new[i].t = "int"
                /\ new[p + 1] = PyInt(IF last'.arg = None THEN IntV(0) ELSE last'.arg)
                /\ new[2 - p] = old[2 - p]
           /\ (last'.op = "set" /\ ret' # None) => tags' = tags
           /\ (last'.op = "delete" /\ p = 1) => HasKey(tags', "trkn") /\ new = <<old[1], IntV(0)>>
           /\ (last'.op = "delete" /\ p = 0) => ~HasKey(tags', "trkn")]_vars

\* the total of an MP4 file whose atom held the pair (5, 3) was deleted:
\* the atom holds (5, 0)
C22_Witness ==
    /\ mgclass = "MP4" /\ last.op = "delete" /\ last.field = "tracktotal"
    /\ HasKey(tags, "trkn") /\ tags["trkn"] = One(ListV(<<IntV(5), IntV(0)>>))

-----------------------------------------------------------------------------
(* Reading the images of an ASF file that holds a malformed picture.        *)

\* a WM/Picture attribute with the bytes given
AsfPicture(bytes) == [t |-> "ASFByteArrayAttribute", value |-> bytes]

\* well-formed pictures: a PNG front cover and a JPEG back cover
AsfFront == AsfPicture(pack_asf_image(PNG, <<137, 2>>, 3, <<65>>))
AsfBack == AsfPicture(pack_asf_image(JPEG, <<255, 3>>, 4, <<66>>))
\* malformed pictures: the header and a mime type that no two zero bytes
\* end, and a header cut short in its length
AsfNoTerminator == AsfPicture(<<3, 2, 0, 0, 0, 65, 0>>)
AsfTruncated == AsfPicture(<<3, 2>>)

\* The tags of the files the model opens: no picture, two well-formed
\* pictures, and a malformed picture alone, before, between and after
\* well-formed ones.
MalformedTags ==
    { EmptyTags, Dict(<< <<"WM/Picture", ListV(<<AsfFront, AsfBack>>)>> >>) }
    \cup UNION { { Dict(<< <<"WM/Picture", ListV(<<bad>>)>> >>),
                   Dict(<< <<"WM/Picture", ListV(<<bad, AsfFront>>)>> >>),
                   Dict(<< <<"WM/Picture", ListV(<<AsfFront, bad, AsfBack>>)>> >>),
                   Dict(<< <<"WM/Picture", ListV(<<AsfFront, AsfBack, bad>>)>> >>) } : bad \in {AsfNoTerminator, AsfTruncated} }

\* a facade just constructed over one of the files
InitMalformed ==
    /\ phase = "Open"
    /\ mgclass = "ASF"
    /\ type = TypeOfClass(mgclass, FALSE)
    /\ id3v23 = FALSE
    /\ hastags = TRUE
    /\ tags \in MalformedTags
    /\ info = NoInfo
    /\ disk = File(mgclass, TRUE, tags, info, 0)
    /\ clsdict = ImageClassBody
    /\ last = NoOp
    /\ ret = None
    /\ calls = <<>>
    /\ nops = 0

\* a call that never ends is the last the program makes
NextMalformed ==
    \/ \E name \in {n \in {"art", "images"} : ret # Hang} : FieldGet(name)
    \/ \E name \in {n \in {"art", "images"} : ret # Hang} : \E value \in (IF name = "images" THEN ImageLists ELSE ArtValues) : FieldSet(name, value)
    \/ \E name \in {n \in {"art", "images"} : ret # Hang} : FieldDelete(name)

SpecMalformed == InitMalformed /\ [][NextMalformed]_vars

\* the pictures of the file that unpack, in their order
WellFormed(mg) ==
    IF HasKey(mg, "WM/Picture") THEN SelectSeq(mg["WM/Picture"].l, LAMBDA pic : ~Failed(asf_image(unpack_asf_image(pic.value)))) ELSE <<>>

\* C23: reading the image list of a file that holds a malformed picture
\* among well-formed ones does not raise and returns the images of the
\* well-formed pictures, in their order.
C23_MalformedSkipped ==
    (last.op = "get" /\ last.field = "images" /\ HasKey(tags, "WM/Picture")) =>
        /\ ~Failed(ret)
        /\ ret = ListV([i \in 1..Len(WellFormed(tags)) |-> asf_image(unpack_asf_image(WellFormed(tags)[i].value))])

-----------------------------------------------------------------------------
(* Decoding Sound Check texts, one call on each.                            *)

\* the eight hex digits of a 32-bit integer, negative ones in two's
\* complement
HexWord32(n) ==
    IF n >= 0 THEN ZeroPad(NatToHex(n), 8)
    ELSE <<HexDigits[HexVal(ZeroPad(NatToHex((n + 2147483647) + 1), 8)[1]) + 9]>> \o Tail(ZeroPad(NatToHex((n + 2147483647) + 1), 8))

\* the measurements and the peak samples of the texts the model decodes
GainWords == {0 - 1, 0, 1000}
PeakWords == {0 - 1, 0, 1, 256, 16384, 32768}

RECURSIVE JoinWords(_, _)
JoinWords(words, sep) == IF words = <<>> THEN <<>> ELSE sep \o HexWord32(Head(words)) \o JoinWords(Tail(words), sep)
\* the text of ten numbers: each after a space, or all in a row
WordsText(words, spaced) == JoinWords(words, IF spaced THEN <<" ">> ELSE <<>>)

\* texts that are not the hex digits of ten 32-bit integers: nothing, text
\* that is no hex, nine numbers, an odd count of digits, eleven numbers, a
\* letter among eighty digits, a tab between the numbers, and the text
\* _sc_encode writes for a negative peak
MalformedTexts ==
    { <<>>, <<"x">>, <<" ">>,
      WordsText(<<1000, 1000, 0, 0, 0, 0, 1, 1, 0>>, TRUE),
      Tail(WordsText(<<1000, 1000, 0, 0, 0, 0, 1, 1, 0, 0>>, FALSE)),
      WordsText(<<1000, 1000, 0, 0, 0, 0, 1, 1, 0, 0, 0>>, TRUE),
      <<"G">> \o Tail(WordsText(<<1000, 1000, 0, 0, 0, 0, 1, 1, 0, 0>>, FALSE)),
      JoinWords(<<1000, 1000, 0, 0, 0, 0, 1, 1, 0, 0>>, <<"\t">>),
      sc_encode(FloatV(0, 0), FloatV(0 - 1, 0)).s }

\* the inputs of the decoder: the numbers a text spells (none for a
\* malformed text), the text, and whether it comes as bytes
ScInput(words, text, bytes) == [words |-> words, text |-> IF bytes THEN BytesV(text) ELSE StrV(text)]

\* no facade: the decoder has an input to be called on
InitSoundCheck ==
    /\ phase = "Coding"
    /\ mgclass = "none" /\ type = "none" /\ id3v23 = FALSE /\ hastags = FALSE
    /\ tags = EmptyTags /\ info = NoInfo
    /\ disk = File("none", FALSE, EmptyTags, NoInfo, 0)
    /\ clsdict = ClassBody
    /\ ret = None /\ calls = <<>> /\ nops = 0
    /\ \E bytes \in BOOLEAN :
        \/ \E v0, v1 \in GainWords : \E v6, v7 \in PeakWords : \E spaced \in BOOLEAN :
                last = [op |-> "input", field |-> "",
                        arg |-> ScInput(<<v0, v1, 0, 0, 0, 0, v6, v7, 0, 0>>, WordsText(<<v0, v1, 0, 0, 0, 0, v6, v7, 0, 0>>, spaced), bytes)]
        \/ \E text \in MalformedTexts : last = [op |-> "input", field |-> "", arg |-> ScInput(<<>>, text, bytes)]

\* _sc_decode(soundcheck)
ScDecode ==
    /\ phase = "Coding" /\ last.op = "input"
    /\ ret' = sc_decode(last.arg.text)
    /\ last' = [last EXCEPT !.op = "sc_decode"]
    /\ UNCHANGED <<phase, mgclass, type, id3v23, hastags, tags, info, disk, clsdict, calls, nops>>

NextSoundCheck == ScDecode

SpecSoundCheck == InitSoundCheck /\ [][NextSoundCheck]_vars

\* the decoder returned a pair of floats
ReturnedPair == DOMAIN ret = 1..2 /\ ret[1].t = "float" /\ ret[2].t = "float"

\* C24 as stated: the decoder never raises; a text that is not the hex
\* digits of ten 32-bit integers gives (0.0, 0.0); for one that is, the gain
\* is 0.0 when max(v0, v1) is not positive, and the peak is
\* max(v6, v7) / 32768.
C24_PeakExact ==
    last.op = "sc_decode" =>
        /\ ReturnedPair
        /\ last.arg.words = <<>> => ret = <<FloatV(0, 0), FloatV(0, 0)>>
        /\ last.arg.words # <<>> =>
            /\ Max(last.arg.words[1], last.arg.words[2]) <= 0 => ret[1] = FloatV(0, 0)
            /\ ret[2] = Normal(FloatV(Max(last.arg.words[7], last.arg.words[8]), 15))

\* a float of six decimal places or fewer
SixPlaces(x) == "d" \in DOMAIN x \/ x.k <= 6
\* the millionths of a float that has six decimal places
Micros(x) == IF "d" \in DOMAIN x THEN x.n ELSE x.n * 15625 * Pow2(6 - x.k)

\* C24, amended: the decoder never raises; a text that is not the hex
\* digits of ten 32-bit integers gives (0.0, 0.0); for one that is, the gain
\* is 0.0 when max(v0, v1) is not positive, and the peak is
\* max(v6, v7) / 32768 rounded to six decimal places.
C24_PeakRounded ==
    last.op = "sc_decode" =>
        /\ ReturnedPair
        /\ last.arg.words = <<>> => ret = <<FloatV(0, 0), FloatV(0, 0)>>
        /\ last.arg.words # <<>> =>
            /\ Max(last.arg.words[1], last.arg.words[2]) <= 0 => ret[1] = FloatV(0, 0)
            /\ SixPlaces(ret[2])
            /\ 2 * (Micros(ret[2]) * 512 - Max(last.arg.words[7], last.arg.words[8]) * 15625) \in (0 - 512)..512

\* a text whose larger peak sample is 1 was decoded: the peak is 0.000031,
\* and the gain of a measurement that is not positive is 0.0
C24_Witness ==
    /\ last.op = "sc_decode"
    /\ last.arg.words = <<0 - 1, 0, 0, 0, 0, 0, 0, 1, 0, 0>>
    /\ ret = <<FloatV(0, 0), DecimalV(31, 6)>>

\* ---------------------------------------------------------------------
\* The formats of the storage styles of every field
\* ---------------------------------------------------------------------

\* The fields MediaFile declares, each with the classes of the storage
\* styles it is built from, in order. A field made by single_field() has
\* the styles of its list field; year, month and day go through their date
\* field, and art through images, whose styles ImageListField.__init__
\* names.
FieldStyleClasses ==
    [
     title |-> <<"MP3StorageStyle", "MP4StorageStyle", "StorageStyle", "ASFStorageStyle">>,
     artist |-> <<"MP3StorageStyle", "MP4StorageStyle", "StorageStyle", "ASFStorageStyle">>,
     artists |-> <<"MP3ListDescStorageStyle", "MP4ListStorageStyle", "ListStorageStyle", "ASFStorageStyle">>,
     album |-> <<"MP3StorageStyle", "MP4StorageStyle", "StorageStyle", "ASFStorageStyle">>,
     genres |-> <<"MP3ListStorageStyle", "MP4ListStorageStyle", "ListStorageStyle", "ASFStorageStyle">>,
     genre |-> <<"MP3ListStorageStyle", "MP4ListStorageStyle", "ListStorageStyle", "ASFStorageStyle">>,
     lyricist |-> <<"MP3StorageStyle", "MP4StorageStyle", "StorageStyle", "ASFStorageStyle">>,
     composer |-> <<"MP3StorageStyle", "MP4StorageStyle", "StorageStyle", "ASFStorageStyle">>,
     composer_sort |-> <<"MP3StorageStyle", "MP4StorageStyle", "StorageStyle", "ASFStorageStyle">>,
     arranger |-> <<"MP3PeopleStorageStyle", "MP4StorageStyle", "StorageStyle", "ASFStorageStyle">>,
     grouping |-> <<"MP3StorageStyle", "MP4StorageStyle", "StorageStyle", "ASFStorageStyle">>,
     track |-> <<"MP3SlashPackStorageStyle", "MP4TupleStorageStyle", "StorageStyle", "StorageStyle", "ASFStorageStyle">>,
     tracktotal |-> <<"MP3SlashPackStorageStyle", "MP4TupleStorageStyle", "StorageStyle", "StorageStyle", "StorageStyle", "ASFStorageStyle">>,
     disc |-> <<"MP3SlashPackStorageStyle", "MP4TupleStorageStyle", "StorageStyle", "StorageStyle", "ASFStorageStyle">>,
     disctotal |-> <<"MP3SlashPackStorageStyle", "MP4TupleStorageStyle", "StorageStyle", "StorageStyle", "StorageStyle", "ASFStorageStyle">>,
     url |-> <<"MP3DescStorageStyle", "MP4StorageStyle", "StorageStyle", "ASFStorageStyle">>,
     lyrics |-> <<"MP3DescStorageStyle", "MP4StorageStyle", "StorageStyle", "ASFStorageStyle">>,
     comments |-> <<"MP3DescStorageStyle", "MP4StorageStyle", "StorageStyle", "StorageStyle", "ASFStorageStyle", "ASFStorageStyle">>,
     copyright |-> <<"MP3StorageStyle", "MP4StorageStyle", "StorageStyle", "ASFStorageStyle">>,
     bpm |-> <<"MP3StorageStyle", "MP4StorageStyle", "StorageStyle", "ASFStorageStyle">>,
     comp |-> <<"MP3StorageStyle", "MP4BoolStorageStyle", "StorageStyle", "ASFStorageStyle">>,
     albumartist |-> <<"MP3StorageStyle", "MP4StorageStyle", "StorageStyle", "StorageStyle", "StorageStyle", "ASFStorageStyle">>,
     albumartists |-> <<"MP3ListDescStorageStyle", "MP3ListDescStorageStyle", "MP3ListDescStorageStyle", "MP4ListStorageStyle", "MP4ListStorageStyle", "MP4ListStorageStyle", "ListStorageStyle", "ListStorageStyle", "ListStorageStyle", "ASFStorageStyle">>,
     albumtypes |-> <<"MP3ListDescStorageStyle", "MP4ListStorageStyle", "ListStorageStyle", "ListStorageStyle", "ASFStorageStyle">>,
     albumtype |-> <<"MP3ListDescStorageStyle", "MP4ListStorageStyle", "ListStorageStyle", "ListStorageStyle", "ASFStorageStyle">>,
     label |-> <<"MP3StorageStyle", "MP4StorageStyle", "MP4StorageStyle", "MP4StorageStyle", "StorageStyle", "StorageStyle", "ASFStorageStyle">>,
     artist_sort |-> <<"MP3StorageStyle", "MP4StorageStyle", "StorageStyle", "ASFStorageStyle">>,
     albumartist_sort |-> <<"MP3DescStorageStyle", "MP4StorageStyle", "StorageStyle", "ASFStorageStyle">>,
     asin |-> <<"MP3DescStorageStyle", "MP4StorageStyle", "StorageStyle", "ASFStorageStyle">>,
     catalognums |-> <<"MP3ListDescStorageStyle", "MP3ListDescStorageStyle", "MP3ListDescStorageStyle", "MP4ListStorageStyle", "MP4ListStorageStyle", "MP4ListStorageStyle", "ListStorageStyle", "ListStorageStyle", "ListStorageStyle", "ASFStorageStyle", "ASFStorageStyle", "ASFStorageStyle">>,
     catalognum |-> <<"MP3ListDescStorageStyle", "MP3ListDescStorageStyle", "MP3ListDescStorageStyle", "MP4ListStorageStyle", "MP4ListStorageStyle", "MP4ListStorageStyle", "ListStorageStyle", "ListStorageStyle", "ListStorageStyle", "ASFStorageStyle", "ASFStorageStyle", "ASFStorageStyle">>,
     barcode |-> <<"MP3DescStorageStyle", "MP4StorageStyle", "StorageStyle", "StorageStyle", "StorageStyle", "StorageStyle", "StorageStyle", "ASFStorageStyle">>,
     isrc |-> <<"MP3StorageStyle", "MP4StorageStyle", "StorageStyle", "ASFStorageStyle">>,
     disctitle |-> <<"MP3StorageStyle", "MP4StorageStyle", "StorageStyle", "ASFStorageStyle">>,
     encoder |-> <<"MP3StorageStyle", "MP4StorageStyle", "StorageStyle", "StorageStyle", "ASFStorageStyle">>,
     script |-> <<"MP3DescStorageStyle", "MP4StorageStyle", "StorageStyle", "ASFStorageStyle">>,
     languages |-> <<"MP3ListStorageStyle", "MP4ListStorageStyle", "ListStorageStyle", "ASFStorageStyle">>,
     language |-> <<"MP3ListStorageStyle", "MP4ListStorageStyle", "ListStorageStyle", "ASFStorageStyle">>,
     country |-> <<"MP3DescStorageStyle", "MP4StorageStyle", "StorageStyle", "ASFStorageStyle">>,
     albumstatus |-> <<"MP3DescStorageStyle", "MP4StorageStyle", "StorageStyle", "StorageStyle", "ASFStorageStyle">>,
     media |-> <<"MP3StorageStyle", "MP4StorageStyle", "StorageStyle", "ASFStorageStyle">>,
     albumdisambig |-> <<"MP3DescStorageStyle", "MP4StorageStyle", "StorageStyle", "ASFStorageStyle">>,
     date |-> <<"MP3StorageStyle", "MP4StorageStyle", "StorageStyle", "ASFStorageStyle">>,
     year |-> <<"MP3StorageStyle", "MP4StorageStyle", "StorageStyle", "ASFStorageStyle">>,
     month |-> <<"MP3StorageStyle", "MP4StorageStyle", "StorageStyle", "ASFStorageStyle">>,
     day |-> <<"MP3StorageStyle", "MP4StorageStyle", "StorageStyle", "ASFStorageStyle">>,
     original_date |-> <<"MP3StorageStyle", "MP4StorageStyle", "MP4StorageStyle", "StorageStyle", "ASFStorageStyle">>,
     original_year |-> <<"MP3StorageStyle", "MP4StorageStyle", "MP4StorageStyle", "StorageStyle", "ASFStorageStyle">>,
     original_month |-> <<"MP3StorageStyle", "MP4StorageStyle", "MP4StorageStyle", "StorageStyle", "ASFStorageStyle">>,
     original_day |-> <<"MP3StorageStyle", "MP4StorageStyle", "MP4StorageStyle", "StorageStyle", "ASFStorageStyle">>,
     artist_credit |-> <<"MP3DescStorageStyle", "MP4StorageStyle", "StorageStyle", "ASFStorageStyle">>,
     artists_credit |-> <<"MP3ListDescStorageStyle", "MP4ListStorageStyle", "ListStorageStyle", "ASFStorageStyle">>,
     artists_sort |-> <<"MP3ListDescStorageStyle", "MP4ListStorageStyle", "ListStorageStyle", "ASFStorageStyle">>,
     albumartist_credit |-> <<"MP3DescStorageStyle", "MP4StorageStyle", "StorageStyle", "ASFStorageStyle">>,
     albumartists_credit |-> <<"MP3ListDescStorageStyle", "MP4ListStorageStyle", "ListStorageStyle", "ASFStorageStyle">>,
     albumartists_sort |-> <<"MP3ListDescStorageStyle", "MP4ListStorageStyle", "ListStorageStyle", "ASFStorageStyle">>,
     art |-> <<"MP3ImageStorageStyle", "MP4ImageStorageStyle", "ASFImageStorageStyle", "VorbisImageStorageStyle", "FlacImageStorageStyle", "APEv2ImageStorageStyle">>,
     images |-> <<"MP3ImageStorageStyle", "MP4ImageStorageStyle", "ASFImageStorageStyle", "VorbisImageStorageStyle", "FlacImageStorageStyle", "APEv2ImageStorageStyle">>,
     mb_trackid |-> <<"MP3UFIDStorageStyle", "MP4StorageStyle", "StorageStyle", "ASFStorageStyle">>,
     mb_releasetrackid |-> <<"MP3DescStorageStyle", "MP4StorageStyle", "StorageStyle", "ASFStorageStyle">>,
     mb_workid |-> <<"MP3DescStorageStyle", "MP4StorageStyle", "StorageStyle", "ASFStorageStyle">>,
     mb_albumid |-> <<"MP3DescStorageStyle", "MP4StorageStyle", "StorageStyle", "ASFStorageStyle">>,
     mb_artistids |-> <<"MP3ListDescStorageStyle", "MP4ListStorageStyle", "ListStorageStyle", "ASFStorageStyle">>,
     mb_artistid |-> <<"MP3ListDescStorageStyle", "MP4ListStorageStyle", "ListStorageStyle", "ASFStorageStyle">>,
     mb_albumartistids |-> <<"MP3ListDescStorageStyle", "MP4ListStorageStyle", "ListStorageStyle", "ASFStorageStyle">>,
     mb_albumartistid |-> <<"MP3ListDescStorageStyle", "MP4ListStorageStyle", "ListStorageStyle", "ASFStorageStyle">>,
     mb_releasegroupid |-> <<"MP3DescStorageStyle", "MP4StorageStyle", "StorageStyle", "ASFStorageStyle">>,
     acoustid_fingerprint |-> <<"MP3DescStorageStyle", "MP4StorageStyle", "StorageStyle", "ASFStorageStyle">>,
     acoustid_id |-> <<"MP3DescStorageStyle", "MP4StorageStyle", "StorageStyle", "ASFStorageStyle">>,
     rg_track_gain |-> <<"MP3DescStorageStyle", "MP3DescStorageStyle", "MP3SoundCheckStorageStyle", "MP4StorageStyle", "MP4SoundCheckStorageStyle", "StorageStyle", "ASFStorageStyle">>,
     rg_album_gain |-> <<"MP3DescStorageStyle", "MP3DescStorageStyle", "MP4StorageStyle", "StorageStyle", "ASFStorageStyle">>,
     rg_track_peak |-> <<"MP3DescStorageStyle", "MP3DescStorageStyle", "MP3SoundCheckStorageStyle", "MP4StorageStyle", "MP4SoundCheckStorageStyle", "StorageStyle", "ASFStorageStyle">>,
     rg_album_peak |-> <<"MP3DescStorageStyle", "MP3DescStorageStyle", "MP4StorageStyle", "StorageStyle", "ASFStorageStyle">>,
     r128_track_gain |-> <<"MP3DescStorageStyle", "MP4StorageStyle", "StorageStyle", "ASFStorageStyle">>,
     r128_album_gain |-> <<"MP3DescStorageStyle", "MP4StorageStyle", "StorageStyle", "ASFStorageStyle">>,
     initial_key |-> <<"MP3StorageStyle", "MP4StorageStyle", "StorageStyle", "ASFStorageStyle">>
    ]

\* the class names MediaFile.__init__ has a branch for
MappedClasses == {"M4A", "MP4", "ID3", "MP3", "FLAC", "OggOpus", "OggVorbis", "MonkeysAudio", "WavPack", "Musepack", "ASF", "AIFF", "DSF", "WAVE"}

\* class names some storage style lists that MediaFile.__init__ has no
\* branch for
UnmappedClasses == {"OggTheora", "OggSpeex", "OggFlac", "APEv2File", "OptimFROG"}

\* the styles of a field, by class, that apply to an object of class cls
\* (MediaField.styles)
styles_of(name, cls) == SelectSeq(FieldStyleClasses[name], LAMBDA c : cls \in formats([cls |-> c]))

\* an object of some class has come back from the codec's opener, and a
\* field of the facade is about to be used
InitFormats ==
    /\ phase = "Formats"
    /\ mgclass \in MappedClasses \cup UnmappedClasses
    /\ type = "none" /\ id3v23 = FALSE /\ hastags = FALSE
    /\ tags = EmptyTags /\ info = NoInfo
    /\ disk = File("none", FALSE, EmptyTags, NoInfo, 0)
    /\ clsdict = ClassBody
    /\ ret = None /\ calls = <<>> /\ nops = 0
    /\ \E name \in DOMAIN FieldStyleClasses : last = [op |-> "input", field |-> name, arg |-> None]

\* MediaFile.__init__ from the class of the object on: the family, or
\* FileTypeError
FormatsOpen ==
    /\ phase = "Formats" /\ last.op = "input"
    /\ \E alac \in {a \in BOOLEAN : a => mgclass \in {"M4A", "MP4"}} :
        /\ type' = TypeOfClass(mgclass, alac)
        /\ ret' = IF type' = "unsupported" THEN FileTypeError(StrV(mgclass)) ELSE None
        /\ last' = [last EXCEPT !.op = IF type' = "unsupported" THEN "rejected" ELSE "open"]
    /\ UNCHANGED <<phase, mgclass, id3v23, hastags, tags, info, disk, clsdict, calls, nops>>

\* MediaField.styles(mediafile.mgfile) for the field, as the getter, the
\* setter and the deleter call it
FormatsStyles ==
    /\ phase = "Formats" /\ last.op = "open"
    /\ ret' = styles_of(last.field, mgclass)
    /\ last' = [last EXCEPT !.op = "styles"]
    /\ UNCHANGED <<phase, mgclass, type, id3v23, hastags, tags, info, disk, clsdict, calls, nops>>

NextFormats == FormatsOpen \/ FormatsStyles

SpecFormats == InitFormats /\ [][NextFormats]_vars

MaxIndex == 23

\* the members of ImageType
ImageTypes == {ImageType(v) : v \in 0..20}

\* the type arguments an Image is built with: none, a member, an index
\* (also the least and the greatest a signed byte and an unsigned byte hold)
TypeArgs == {None} \cup ImageTypes \cup {IntV(i) : i \in ((0 - MaxIndex)..MaxIndex) \cup {0 - 128, 127, 255}}

\* no facade: the arguments of an Image to be built
InitImageType ==
    /\ phase = "ImageType"
    /\ mgclass = "none" /\ type = "none" /\ id3v23 = FALSE /\ hastags = FALSE
    /\ tags = EmptyTags /\ info = NoInfo
    /\ disk = File("none", FALSE, EmptyTags, NoInfo, 0)
    /\ clsdict = ClassBody
    /\ ret = None /\ calls = <<>> /\ nops = 0
    /\ \E data \in {<<>>, <<137, 1>>} : \E desc \in {None, StrV(<<65>>)} : \E typ \in TypeArgs :
        last = [op |-> "input", field |-> "", arg |-> [data |-> BytesV(data), desc |-> desc, type |-> typ]]

\* Image(data, desc, type)
ImageNew ==
    /\ phase = "ImageType" /\ last.op = "input"
    /\ ret' = Image(last.arg.data, last.arg.desc, last.arg.type)
    /\ last' = [last EXCEPT !.op = "Image"]
    /\ UNCHANGED <<phase, mgclass, type, id3v23, hastags, tags, info, disk, clsdict, calls, nops>>

\* image.type_index
ImageTypeIndex ==
    /\ phase = "ImageType" /\ last.op = "Image"
    /\ ret' = [image |-> ret, type_index |-> type_index(ret)]
    /\ last' = [last EXCEPT !.op = "type_index"]
    /\ UNCHANGED <<phase, mgclass, type, id3v23, hastags, tags, info, disk, clsdict, calls, nops>>

NextImageType == ImageNew \/ ImageTypeIndex

SpecImageType == InitImageType /\ [][NextImageType]_vars

\* the image that was built
BuiltImage == IF last.op = "Image" THEN ret ELSE ret.image

\* C26: the type of an Image is none or one of the 21 members of
\* ImageType; built with an integer index i, it is the member of value i
\* when 0 <= i <= 20 and `other` for every other index; type_index is in
\* 0..20, and 0 when the type is none.
C26_TypeOfIndex ==
    last.op \in {"Image", "type_index"} =>
        /\ BuiltImage.type = None \/ BuiltImage.type \in ImageTypes
        /\ last.arg.type.t = "int" =>
                BuiltImage.type = IF last.arg.type.n \in 0..20 THEN ImageType(last.arg.type.n) ELSE ImageType(0)
        /\ last.op = "type_index" =>
                /\ ret.type_index \in 0..20
                /\ BuiltImage.type = None => ret.type_index = 0

\* ---------------------------------------------------------------------
\* Unpacking a WM/Picture value
\* ---------------------------------------------------------------------

\* the byte strings unpacked are of at most MaxBytes bytes
MaxBytes == 9

\* the byte strings over a zero and a non-zero byte
ByteStrings == SeqsUpTo({0, 65}, MaxBytes)

\* no facade: a byte string to be unpacked
InitUnpack ==
    /\ phase = "Unpack"
    /\ mgclass = "none" /\ type = "none" /\ id3v23 = FALSE /\ hastags = FALSE
    /\ tags = EmptyTags /\ info = NoInfo
    /\ disk = File("none", FALSE, EmptyTags, NoInfo, 0)
    /\ clsdict = ClassBody
    /\ ret = None /\ calls = <<>> /\ nops = 0
    /\ \E data \in ByteStrings : last = [op |-> "input", field |-> "", arg |-> data]

\* _unpack_asf_image(data)
Unpack ==
    /\ phase = "Unpack" /\ last.op = "input"
    /\ ret' = unpack_asf_image(last.arg)
    /\ last' = [last EXCEPT !.op = "unpack"]
    /\ UNCHANGED <<phase, mgclass, type, id3v23, hastags, tags, info, disk, clsdict, calls, nops>>

NextUnpack == Unpack

SpecUnpack == InitUnpack /\ [][NextUnpack]_vars

\* C27: _unpack_asf_image returns or raises on every byte string.
C27_UnpackTerminates == last.op = "unpack" => ret # Hang

\* ---------------------------------------------------------------------
\* PosixProcess: one running copy per PID file
\* ---------------------------------------------------------------------
\* Two processes share core.PID_FILE and each calls alreadyrunning() once
\* and later drops its PosixProcess object.  Here `disk` is the PID file,
\* `info` the abstract socket address named after it, `last` each process's
\* position and attributes, and `ret` what each call returned.  A step is
\* one system call (or one run of statements between two system calls).

\* the two processes, by process id, and the ids of processes that are gone
Procs == {1, 2}
DeadPids == {3}

\* the PID file: whether it exists, which file it is (a new one is made
\* when open(path, 'w') finds none), and the number it holds (None when
\* what it holds is no number)
PidFile(exists, ino, pid) == [exists |-> exists, ino |-> ino, pid |-> pid]

\* a process inside or after alreadyrunning()
Proc(pc, lock_socket, lasterror, pid, fp) == [pc |-> pc, lock_socket |-> lock_socket, lasterror |-> lasterror, pid |-> pid, fp |-> fp]

\* a platform with or without abstract socket addresses; no PID file, or one
\* left behind by a process that is gone
InitSingleton ==
    /\ phase = "Singleton"
    /\ mgclass = "none" /\ type = "none" /\ id3v23 = FALSE /\ hastags = FALSE
    /\ tags = EmptyTags
    /\ \E abstract \in BOOLEAN : info = [abstract |-> abstract, bound |-> None]
    /\ \E d \in {PidFile(FALSE, 0, None)} \cup {PidFile(TRUE, 0, pid) : pid \in {None} \cup {IntV(n) : n \in DeadPids}} : disk = d
    /\ clsdict = ClassBody
    /\ last = [p \in Procs |-> Proc("bind", None, None, None, None)]
    /\ ret = [p \in Procs |-> None]
    /\ calls = <<>> /\ nops = 0

\* process p is at pc
At(p, pc) == phase = "Singleton" /\ last[p].pc = pc

\* return self.lasterror
Return(p, lasterror, lock_socket) ==
    /\ last' = [last EXCEPT ![p] = Proc("returned", lock_socket, BoolV(lasterror), @.pid, @.fp)]
    /\ ret' = [ret EXCEPT ![p] = BoolV(lasterror)]

\* socket.socket(AF_UNIX, SOCK_DGRAM) and bind('\0' + pidpath): bound and
\* False; 'Address already in use' and True; or, where there is no abstract
\* address, another error, and on to the PID file
Bind ==
    \E p \in Procs :
        /\ At(p, "bind")
        /\ IF ~info.abstract
           THEN /\ last' = [last EXCEPT ![p].pc = "exists"]
                /\ UNCHANGED <<info, ret>>
           ELSE IF info.bound = None
           THEN /\ info' = [info EXCEPT !.bound = IntV(p)]
                /\ Return(p, FALSE, StrV("bound"))
           ELSE /\ Return(p, TRUE, StrV("unbound"))
                /\ UNCHANGED info
        /\ UNCHANGED <<phase, mgclass, type, id3v23, hastags, tags, disk, clsdict, calls, nops>>

\* os.path.exists(self.pidpath)
Exists ==
    \E p \in Procs :
        /\ At(p, "exists")
        /\ last' = [last EXCEPT ![p].pc = IF disk.exists THEN "read" ELSE "open"]
        /\ UNCHANGED <<phase, mgclass, type, id3v23, hastags, tags, info, disk, clsdict, ret, calls, nops>>

\* pid = int(open(self.pidpath).read().strip()), None on any exception
ReadPid ==
    \E p \in Procs :
        /\ At(p, "read")
        /\ last' = [last EXCEPT ![p].pc = "kill", ![p].pid = IF disk.exists THEN disk.pid ELSE None]
        /\ UNCHANGED <<phase, mgclass, type, id3v23, hastags, tags, info, disk, clsdict, ret, calls, nops>>

\* the process of that id is running
Running(pid) == pid \in Procs /\ last[pid].pc # "exited"

\* os.kill(pid, 0) when pid is a number: True is returned when the process
\* runs; the file is stale otherwise
Kill ==
    \E p \in Procs :
        /\ At(p, "kill")
        /\ IF last[p].pid # None /\ Running(last[p].pid.n)
           THEN Return(p, TRUE, last[p].lock_socket)
           ELSE /\ last' = [last EXCEPT ![p].pc = "open"]
                /\ UNCHANGED ret
        /\ UNCHANGED <<phase, mgclass, type, id3v23, hastags, tags, info, disk, clsdict, calls, nops>>

\* fp = open(self.pidpath, 'w'): the file is made, or emptied
OpenPidFile ==
    \E p \in Procs :
        /\ At(p, "open")
        /\ disk' = PidFile(TRUE, IF disk.exists THEN disk.ino ELSE disk.ino + 1, None)
        /\ last' = [last EXCEPT ![p].pc = "write", ![p].fp = IntV(disk'.ino)]
        /\ UNCHANGED <<phase, mgclass, type, id3v23, hastags, tags, info, clsdict, ret, calls, nops>>

\* fp.write(str(os.getpid())); fp.close(); return self.lasterror
WritePid ==
    \E p \in Procs :
        /\ At(p, "write")
        /\ disk' = IF disk.exists /\ disk.ino = last[p].fp.n THEN [disk EXCEPT !.pid = IntV(p)] ELSE disk
        /\ Return(p, FALSE, last[p].lock_socket)
        /\ UNCHANGED <<phase, mgclass, type, id3v23, hastags, tags, info, clsdict, calls, nops>>

\* __del__: a process that was told False closes its socket and removes the
\* PID file
Del ==
    \E p \in Procs :
        /\ At(p, "returned")
        /\ last' = [last EXCEPT ![p].pc = "exited"]
        /\ info' = IF last[p].lasterror = BoolV(FALSE) /\ info.bound = IntV(p) THEN [info EXCEPT !.bound = None] ELSE info
        /\ disk' = IF last[p].lasterror = BoolV(FALSE) /\ disk.exists THEN PidFile(FALSE, disk.ino, None) ELSE disk
        /\ UNCHANGED <<phase, mgclass, type, id3v23, hastags, tags, clsdict, ret, calls, nops>>

NextSingleton == Bind \/ Exists \/ ReadPid \/ Kill \/ OpenPidFile \/ WritePid \/ Del

SpecSingleton == InitSingleton /\ [][NextSingleton]_vars

\* process p was told it is not already running and has not let go
HoldsLock(p) == last[p].pc = "returned" /\ ret[p] = BoolV(FALSE)

\* C28: of two processes sharing a PID file, at most one is told it is not
\* already running while the other still holds its lock.
C28_AtMostOneRunning == ~(HoldsLock(1) /\ HoldsLock(2))

\* ---------------------------------------------------------------------
\* DBConnection.action and select
\* ---------------------------------------------------------------------
\* One call of action(query, args) or select(query, args).  Here `last` is
\* the call (op, query) with the loop's variables, `calls` the outcome of
\* every execution of the query so far, and `ret` what the call returned or
\* raised.

\* `while attempt < 5`
Attempts == 5

\* what one pass through the try block does: the query runs and is
\* committed; or execute or commit raises, with the type and the message of
\* the error
TryOk == [raised |-> "none", in |-> "none", msg |-> ""]
TryError(raised, in, msg) == [raised |-> raised, in |-> in, msg |-> msg]
TryOutcomes ==
    {TryOk}
    \cup {TryError("OperationalError", in, msg) : in \in {"execute", "commit"}, msg \in {"database is locked", "unable to open database file"}}
    \cup {TryError("OperationalError", "execute", "no such table: downloads"),
          TryError("IntegrityError", "execute", "UNIQUE constraint failed"),
          TryError("ProgrammingError", "execute", "Incorrect number of bindings supplied")}

\* 'unable to open database file' in error.args[0] or 'database is locked'
\* in error.args[0], for an OperationalError
Transient(o) == o.raised = "OperationalError" /\ o.msg \in {"database is locked", "unable to open database file"}

\* the cursor connection.execute returned
Cursor == [t |-> "cursor"]

\* the variables of the call
ActionCall(op, query, pc, attempt, sql_result) == [op |-> op, query |-> query, pc |-> pc, attempt |-> attempt, sql_result |-> sql_result]

\* a call of action or select is about to run; `if query is None: return`
InitAction ==
    /\ phase = "Action"
    /\ mgclass = "none" /\ type = "none" /\ id3v23 = FALSE /\ hastags = FALSE
    /\ tags = EmptyTags /\ info = NoInfo
    /\ disk = File("none", FALSE, EmptyTags, NoInfo, 0)
    /\ clsdict = ClassBody
    /\ ret = None /\ calls = <<>> /\ nops = 0
    /\ \E op \in {"action", "select"} : \E query \in {None, StrV(<<"q">>)} :
        last = ActionCall(op, query, IF query = None THEN "return" ELSE "loop", 0, None)

\* one pass of `while attempt < 5`: execute and commit, break on success;
\* a transient OperationalError counts an attempt (and sleeps a second),
\* every other error is raised
Execute ==
    /\ phase = "Action" /\ last.pc = "loop" /\ last.attempt < Attempts
    /\ \E o \in TryOutcomes :
        /\ calls' = Append(calls, o)
        /\ last' = [last EXCEPT !.sql_result = IF o.in = "execute" THEN @ ELSE Cursor,
                                !.attempt = IF Transient(o) THEN @ + 1 ELSE @,
                                !.pc = IF o = TryOk THEN "return"
                                       ELSE IF ~Transient(o) THEN "raised"
                                       ELSE IF last.attempt + 1 < Attempts THEN "loop" ELSE "return"]
        /\ ret' = IF o # TryOk /\ ~Transient(o) THEN Exc(o.raised) ELSE ret
    /\ UNCHANGED <<phase, mgclass, type, id3v23, hastags, tags, info, disk, clsdict, nops>>

\* action: return sql_result
ActionReturn ==
    /\ phase = "Action" /\ last.pc = "return" /\ last.op = "action"
    /\ ret' = last.sql_result
    /\ last' = [last EXCEPT !.pc = "returned"]
    /\ UNCHANGED <<phase, mgclass, type, id3v23, hastags, tags, info, disk, clsdict, calls, nops>>

\* select: self.action(query, args).fetchall(), [] when that is None; the
\* rows are none or one
Select ==
    /\ phase = "Action" /\ last.pc = "return" /\ last.op = "select"
    /\ \E rows \in {<<>>, <<IntV(1)>>} :
        ret' = IF last.sql_result = None THEN Exc("AttributeError") ELSE ListV(rows)
    /\ last' = [last EXCEPT !.pc = IF last.sql_result = None THEN "raised" ELSE "returned"]
    /\ UNCHANGED <<phase, mgclass, type, id3v23, hastags, tags, info, disk, clsdict, calls, nops>>

NextAction == Execute \/ ActionReturn \/ Select

SpecAction == InitAction /\ [][NextAction]_vars

\* C29: action runs the query at most 5 times; it runs it again only after a
\* transient error, raises any other error at once, commits and returns the
\* cursor on the first success, and after 5 transient failures returns None
\* without raising, so that select then still returns a list.
C29_ActionEnds ==
    phase = "Action" =>
        /\ Len(calls) <= Attempts
        /\ \A i \in 1..Len(calls) : i < Len(calls) \/ last.pc = "loop" => Transient(calls[i])
        /\ (calls # <<>> /\ last.pc # "loop" /\ calls[Len(calls)] \notin {o \in TryOutcomes : Transient(o)} \cup {TryOk}) =>
                last.pc = "raised" /\ ret = Exc(calls[Len(calls)].raised)
        /\ (last.pc = "returned" /\ calls # <<>> /\ calls[Len(calls)] = TryOk) =>
                IF last.op = "action" THEN ret = Cursor ELSE ret.t = "list"
        /\ (last.pc \in {"returned", "raised"} /\ Len(calls) = Attempts /\ Transient(calls[Attempts])) =>
                IF last.op = "action" THEN ret = None ELSE ret.t = "list"

\* ---------------------------------------------------------------------
\* DBConnection.upsert
\* ---------------------------------------------------------------------
\* The same upsert(table_name, value_dict, key_dict) is called a number of
\* times on the table `downloads`.  Here `disk` is the table, a sequence of
\* rows in the order they were inserted, `last` the call's arguments,
\* `calls` the number of rows after each call, and `ret` what the last call
\* raised.  The database answers every query (no transient error).

\* the same upsert is called at most MaxUpserts times
MaxUpserts == 3

\* some columns of `downloads`, and PRIMARY KEY (input_directory, input_name)
Columns == {"input_directory", "input_name", "status"}
PrimaryKey == {"input_directory", "input_name"}

\* the values a column is given; a column nobody gave a value holds NULL,
\* here None
Vals == {IntV(1), IntV(2)}

\* a dictionary over some of the columns
Dicts(cols) == UNION {[S -> Vals] : S \in (SUBSET cols) \ {{}}}

\* two rows break the primary key: equal in its columns, none of them NULL
SameKey(r, s) == \A c \in PrimaryKey : r[c] # None /\ r[c] = s[c]
KeyBroken(rows) == \E i, j \in 1..Len(rows) : i < j /\ SameKey(rows[i], rows[j])

\* `k = ?` for every k of the dictionary, joined by AND
Matches(row, key_dict) == \A k \in DOMAIN key_dict : row[k] = key_dict[k]

\* UPDATE downloads SET <value_dict> WHERE <key_dict>: the rows afterwards
UpdateRows(rows, value_dict, key_dict) ==
    [i \in 1..Len(rows) |->
        IF Matches(rows[i], key_dict)
        THEN [c \in Columns |-> IF c \in DOMAIN value_dict THEN value_dict[c] ELSE rows[i][c]]
        ELSE rows[i]]

\* connection.total_changes after the UPDATE, less changes_before
Changes(rows, key_dict) == Cardinality({i \in 1..Len(rows) : Matches(rows[i], key_dict)})

\* INSERT OR IGNORE INTO downloads (<columns of value_dict>) VALUES (...):
\* the other columns are NULL; a row that breaks the primary key is dropped
InsertOrIgnore(rows, value_dict) ==
    LET row == [c \in Columns |-> IF c \in DOMAIN value_dict THEN value_dict[c] ELSE None]
    IN IF KeyBroken(Append(rows, row)) THEN rows ELSE Append(rows, row)

\* upsert(table_name, value_dict, key_dict) on the rows: the rows
\* afterwards, and the IntegrityError of an UPDATE that breaks the primary
\* key (None when there is none)
upsert(rows, value_dict, key_dict) ==
    IF KeyBroken(UpdateRows(rows, value_dict, key_dict)) THEN [rows |-> rows, exc |-> Exc("sqlite3.IntegrityError")]
    ELSE IF Changes(rows, key_dict) = 0 THEN [rows |-> InsertOrIgnore(rows, value_dict), exc |-> None]
    ELSE [rows |-> UpdateRows(rows, value_dict, key_dict), exc |-> None]

\* the tables the calls start from: up to two rows that keep the primary key
StartRows == [Columns -> Vals]
StartTables == {<<>>} \cup {<<r>> : r \in StartRows} \cup {pair \in StartRows \X StartRows : ~SameKey(pair[1], pair[2])}

\* a table, and the dictionaries of the call: the key over columns of the
\* primary key, the values over any columns, the two equal where they meet
InitUpsert ==
    /\ phase = "Upsert"
    /\ mgclass = "none" /\ type = "none" /\ id3v23 = FALSE /\ hastags = FALSE
    /\ tags = EmptyTags /\ info = NoInfo
    /\ disk \in StartTables
    /\ clsdict = ClassBody
    /\ ret = None /\ calls = <<>> /\ nops = 0
    /\ \E key_dict \in Dicts(PrimaryKey) :
        \E value_dict \in {v \in Dicts(Columns) : \A c \in DOMAIN v \cap DOMAIN key_dict : v[c] = key_dict[c]} :
            last = [op |-> "upsert", field |-> "", arg |-> [value_dict |-> value_dict, key_dict |-> key_dict]]

\* db.upsert('downloads', value_dict, key_dict)
Upsert ==
    /\ phase = "Upsert" /\ nops < MaxUpserts /\ ret = None
    /\ \E r \in {upsert(disk, last.arg.value_dict, last.arg.key_dict)} :
        /\ disk' = r.rows
        /\ ret' = r.exc
        /\ calls' = IF r.exc = None THEN Append(calls, Len(r.rows)) ELSE calls
    /\ nops' = nops + 1
    /\ UNCHANGED <<phase, mgclass, type, id3v23, hastags, tags, info, clsdict, last>>

NextUpsert == Upsert

SpecUpsert == InitUpsert /\ [][NextUpsert]_vars

\* C30: after an upsert the table holds a row with the columns of key_dict
\* equal to key_dict and the columns of value_dict equal to value_dict, and
\* calling the same upsert again leaves the number of rows as it was.
C30_UpsertRow ==
    (phase = "Upsert" /\ calls # <<>>) =>
        /\ \E i \in 1..Len(disk) : Matches(disk[i], last.arg.key_dict) /\ Matches(disk[i], last.arg.value_dict)
        /\ \A j \in 1..Len(calls) : calls[j] = calls[1]

====
